---- MODULE Spec2Model ----
(***************************************************************************)
(* Verification model of the mind-map interaction core:                    *)
(*   - the page-level gesture session of the web front end                 *)
(*     (frontend/src/app/mindmap/page.tsx) and the hooks of the mobile     *)
(*     front end (mobile/src/hooks/*.ts),                                  *)
(*   - the screen/world coordinate conversion used when rendering and      *)
(*     dropping a node,                                                    *)
(*   - the JSON-patch applier (frontend/src/utils/jsonPatch.ts).           *)
(*                                                                         *)
(* JavaScript values are modelled by one uniform record shape so that any  *)
(* two values can be compared: a string is a sequence of tokens (a token   *)
(* is a single special character, a digit, or a run of letters), an        *)
(* object is a function from keys (strings) to values, an array is a       *)
(* sequence of values.                                                     *)
(***************************************************************************)
EXTENDS Integers, Sequences, FiniteSets, TLC

VARIABLES
    platform,                \* "web" | "mobile": which front end is running
    nodes,                   \* React state: MindMapNode[]
    connections,             \* React state: Connection[]
    history,                 \* historyRef.current (web undo snapshots)
    currentEditingNodeId,
    connectionSourceNodeId,
    isConnectionMode,
    connectionTimeoutRef,    \* timer handle held by the ref (0 = null)
    timers,                  \* live setTimeout timers: set of [id, remaining, kind]
    selectedConnectionId,
    selectedNodeId,
    preventNextSelection,
    isConnectionDragging,
    connectionDragStartNode,
    activeTool,
    now,                     \* Date.now()
    last,                    \* the handler that ran last, with its arguments
    pendingElapsed,          \* ms since handleConnectionClick entered the pending
                             \* state that is still current (-1: none)
    coord,                   \* coordinate round-trip machine
    pm,                      \* patch machine (one applyJsonPatch call in progress)
    ui                       \* web DOM level: pointer, MindMapNode component states

graphVars   == <<nodes, connections, history>>
sessionVars == <<currentEditingNodeId, connectionSourceNodeId, isConnectionMode,
                 connectionTimeoutRef, timers, selectedConnectionId, selectedNodeId,
                 preventNextSelection, isConnectionDragging, connectionDragStartNode,
                 activeTool>>
vars == <<platform, nodes, connections, history, currentEditingNodeId,
          connectionSourceNodeId, isConnectionMode, connectionTimeoutRef, timers,
          selectedConnectionId, selectedNodeId, preventNextSelection,
          isConnectionDragging, connectionDragStartNode, activeTool, now,
          last, pendingElapsed, coord, pm, ui>>

----------------------------------------------------------------------------
(* JavaScript values *)

EmptyObj == [key \in {} |-> 0]

JsUndefined == [k |-> "undefined", n |-> 0, s |-> <<>>, o |-> EmptyObj, a |-> <<>>]
JsNull      == [k |-> "null",      n |-> 0, s |-> <<>>, o |-> EmptyObj, a |-> <<>>]
JsTrue      == [k |-> "boolean",   n |-> 1, s |-> <<>>, o |-> EmptyObj, a |-> <<>>]
JsFalse     == [k |-> "boolean",   n |-> 0, s |-> <<>>, o |-> EmptyObj, a |-> <<>>]
Num(i)      == [k |-> "number",    n |-> i, s |-> <<>>, o |-> EmptyObj, a |-> <<>>]
Str(toks)   == [k |-> "string",    n |-> 0, s |-> toks, o |-> EmptyObj, a |-> <<>>]
Obj(f)      == [k |-> "object",    n |-> 0, s |-> <<>>, o |-> f,        a |-> <<>>]
Arr(q)      == [k |-> "array",     n |-> 0, s |-> <<>>, o |-> EmptyObj, a |-> q]
S1(word)    == Str(<<word>>)
\* the number i/10 (0.3 is Tenths(3))
Tenths(i)   == [k |-> "number",    n |-> i, s |-> <<"/10">>, o |-> EmptyObj, a |-> <<>>]

\* property read: obj[key]; undefined when the key is absent
Get(v, key) ==
    IF v.k = "object" /\ key \in DOMAIN v.o THEN v.o[key] ELSE JsUndefined

\* JavaScript truthiness (!v is ~Truthy(v))
Truthy(v) ==
    CASE v.k \in {"undefined", "null"} -> FALSE
      [] v.k = "boolean" -> v.n = 1
      [] v.k = "number"  -> v.n # 0
      [] v.k = "string"  -> v.s # <<>>
      [] OTHER           -> TRUE

\* JSON.parse(JSON.stringify(v)) of a JSON-representable value: a deep copy
\* by value; inside an array an undefined element (a hole) becomes null,
\* inside an object a key whose value is undefined is dropped.
RECURSIVE JsonCopy(_), JsonCopySeq(_)
JsonCopy(v) ==
    CASE v.k = "object" ->
            Obj([key \in {x \in DOMAIN v.o : v.o[x].k # "undefined"}
                    |-> JsonCopy(v.o[key])])
      [] v.k = "array" -> Arr(JsonCopySeq(v.a))
      [] OTHER -> v
JsonCopySeq(q) ==
    IF q = <<>> THEN <<>>
    ELSE <<IF Head(q).k = "undefined" THEN JsNull ELSE JsonCopy(Head(q))>>
            \o JsonCopySeq(Tail(q))


----------------------------------------------------------------------------
(* Bounds of the model and constants of the program *)

MaxHistory == 1               \* undo snapshots kept before handlers stop pushing
TickMs == 1500                \* longest step of the clock
MaxNow == 3000                \* the clock stops here
NumRandom == 1                \* distinct outcomes of Math.random()
MaxPointerHistory == 2        \* undo snapshots kept in the pointer specification
CONNECTION_TIMEOUT == 3000    \* setTimeout(..., 3000) of the pending state

----------------------------------------------------------------------------
(* Graph data *)

K(word) == <<word>>

\* ids of the default map: 'node-central', 'node-1', 'node-2'
NodeCentral == Str(<<"node", "-", "central">>)
Node1 == Str(<<"node", "-", "1">>)
Node2 == Str(<<"node", "-", "2">>)

DefaultNode(id, title, x, y, color, borderColor) ==
    Obj((K("id") :> id) @@ (K("title") :> title) @@
        (K("x") :> Num(x)) @@ (K("y") :> Num(y)) @@
        (K("color") :> color) @@ (K("borderColor") :> borderColor))

\* defaultNodes: the map both front ends start from
defaultNodes ==
    << DefaultNode(NodeCentral, Str(<<"Idea", " ", "Centrale">>), 0, 0,
                   S1("#3b82f6"), S1("#1d4ed8")),
       DefaultNode(Node1, Str(<<"Argomento", " ", "1">>), -200, -100,
                   S1("#10b981"), S1("#047857")),
       DefaultNode(Node2, Str(<<"Argomento", " ", "2">>), 200, -100,
                   S1("#10b981"), S1("#047857")) >>

DefaultConnection(id, sourceId, targetId) ==
    Obj((K("id") :> id) @@ (K("sourceId") :> sourceId) @@ (K("targetId") :> targetId) @@
        (K("type") :> S1("curved")) @@ (K("curvature") :> Tenths(3)) @@
        (K("color") :> S1("#6b7280")))

\* defaultConnections: conn-1 and conn-2, from the central node
defaultConnections ==
    << DefaultConnection(Str(<<"conn", "-", "1">>), NodeCentral, Node1),
       DefaultConnection(Str(<<"conn", "-", "2">>), NodeCentral, Node2) >>

IdsOf(q) == {Get(q[i], K("id")) : i \in 1..Len(q)}

\* conn joins the unordered pair {a, b}
Joins(conn, a, b) ==
    \/ Get(conn, K("sourceId")) = a /\ Get(conn, K("targetId")) = b
    \/ Get(conn, K("sourceId")) = b /\ Get(conn, K("targetId")) = a

----------------------------------------------------------------------------
(* Timers: setTimeout / clearTimeout *)

LiveIds == {t.id : t \in timers}

\* the handle setTimeout returns: a number no live timer and no ref holds
FreshTimerId == CHOOSE i \in 1..(Cardinality(timers) + 2) :
                    i \notin LiveIds /\ i # connectionTimeoutRef

\* clearTimeout(handle): a handle of no live timer clears nothing
ClearTimeout(ts, handle) == {t \in ts : t.id # handle}

SetTimeout(ts, handle, kind, delay) ==
    ts \cup {[id |-> handle, remaining |-> delay, kind |-> kind]}

----------------------------------------------------------------------------
(* Web front end: handlers of MindMapPage *)

Snapshot == [nodes |-> nodes, connections |-> connections]

\* historyRef.current.push({nodes: JSON copy, connections: JSON copy})
PushHistory == Append(history,
                  [nodes |-> JsonCopySeq(nodes), connections |-> JsonCopySeq(connections)])

\* the pointer specification keeps its own, longer history; the ones of the
\* saves and of undo take a snapshot for each of their handler calls
HistoryLimit ==
    CASE ui.pc = "on" -> MaxPointerHistory
      [] ui.pc = "persist" -> ui.mutations + 1
      [] ui.pc = "history" -> ui.actions + 1
      [] ui.pc = "background" -> ui.presses + 1
      [] OTHER -> MaxHistory

CanPush == Len(history) < HistoryLimit

NoGraphChange == UNCHANGED <<nodes, connections, history>>

\* variant: the existence test looks in the direction of the attempt only
connectionExists_OneDirection(conns, sourceId, targetId) ==
    \E i \in 1..Len(conns) :
        /\ Get(conns[i], K("sourceId")) = sourceId
        /\ Get(conns[i], K("targetId")) = targetId

\* connections.some(conn => joins sourceId and targetId in either direction)
connectionExists(conns, sourceId, targetId) ==
    \E i \in 1..Len(conns) : Joins(conns[i], sourceId, targetId)

\* the Connection object createConnection builds
NewWebConnection(sourceId, targetId) ==
    Obj((K("id") :> Str(<<"conn", "-">> \o sourceId.s \o <<"-">> \o targetId.s
                          \o <<"-", ToString(now)>>)) @@
        (K("sourceId") :> sourceId) @@ (K("targetId") :> targetId) @@
        (K("type") :> S1("curved")) @@ (K("adaptiveCurvature") :> JsTrue) @@
        (K("curvatureDirection") :> S1("auto")) @@ (K("color") :> S1("#6b7280")) @@
        (K("width") :> Num(2)) @@ (K("showArrow") :> JsTrue) @@
        (K("arrowPosition") :> S1("end")) @@ (K("relation") :> S1("generico")))

\* createConnection accepts the pair: not a self-connection, no connection yet
createConnectionAccepts(sourceId, targetId) ==
    /\ sourceId # targetId
    /\ ~connectionExists(connections, sourceId, targetId)

\* variant: the snapshot is pushed before the validation checks
createConnection_SnapshotFirst(sourceId, targetId) ==
    /\ CanPush
    /\ history' = PushHistory
    /\ nodes' = nodes
    /\ connections' =
          IF createConnectionAccepts(sourceId, targetId)
          THEN Append(connections, NewWebConnection(sourceId, targetId))
          ELSE connections

\* createConnection(sourceId, targetId): its effect on the graph and the history
createConnection(sourceId, targetId) ==
    IF createConnectionAccepts(sourceId, targetId)
    THEN /\ CanPush
         /\ history' = PushHistory
         /\ connections' = Append(connections, NewWebConnection(sourceId, targetId))
         /\ nodes' = nodes
    ELSE NoGraphChange

\* variant: the ref is set to null but its timer is left running
ClearConnectionTimeout_RefOnly ==
    /\ timers' = timers
    /\ connectionTimeoutRef' = 0

\* the ref's timer is cleared and the ref set to null
ClearConnectionTimeout ==
    /\ timers' = ClearTimeout(timers, connectionTimeoutRef)
    /\ connectionTimeoutRef' = 0

handleConnectionClick(nodeId, isCtrlClick) ==
    IF ~Truthy(connectionSourceNodeId)
    THEN /\ isCtrlClick
         /\ connectionSourceNodeId' = nodeId
         /\ isConnectionMode' = TRUE
         /\ LET handle == FreshTimerId
            IN /\ timers' = SetTimeout(ClearTimeout(timers, connectionTimeoutRef),
                                       handle, "connection", CONNECTION_TIMEOUT)
               /\ connectionTimeoutRef' = handle
         /\ NoGraphChange
         /\ UNCHANGED preventNextSelection
    ELSE IF connectionSourceNodeId = nodeId
    THEN /\ connectionSourceNodeId' = JsNull
         /\ isConnectionMode' = FALSE
         /\ preventNextSelection' = FALSE
         /\ ClearConnectionTimeout
         /\ NoGraphChange
    ELSE /\ createConnection(connectionSourceNodeId, nodeId)
         /\ connectionSourceNodeId' = JsNull
         /\ isConnectionMode' = FALSE
         /\ preventNextSelection' = TRUE
         /\ ClearConnectionTimeout

\* variant: the callback forgets to leave connection mode
connectionTimeoutCallback_KeepsMode(t) ==
    /\ connectionSourceNodeId' = JsNull
    /\ UNCHANGED isConnectionMode
    /\ preventNextSelection' = FALSE
    /\ connectionTimeoutRef' = 0
    /\ timers' = timers \ {t}
    /\ NoGraphChange

\* the timer callback armed by handleConnectionClick
connectionTimeoutCallback(t) ==
    /\ connectionSourceNodeId' = JsNull
    /\ isConnectionMode' = FALSE
    /\ preventNextSelection' = FALSE
    /\ connectionTimeoutRef' = 0
    /\ timers' = timers \ {t}
    /\ NoGraphChange

handleConnectionDragStart(nodeId) ==
    /\ ClearConnectionTimeout
    /\ IF nodeId \in IdsOf(nodes)
       THEN /\ connectionDragStartNode' = Obj(K("id") :> nodeId)
            /\ isConnectionDragging' = TRUE
            /\ connectionSourceNodeId' = nodeId
            /\ isConnectionMode' = TRUE
       ELSE UNCHANGED <<connectionDragStartNode, isConnectionDragging,
                        connectionSourceNodeId, isConnectionMode>>
    /\ NoGraphChange

\* targetNodeId is undefined when the pointer is released over no node
handleConnectionDragEnd(targetNodeId) ==
    IF ~Truthy(connectionDragStartNode)
    THEN /\ NoGraphChange
         /\ UNCHANGED <<isConnectionDragging, connectionDragStartNode,
                        connectionSourceNodeId, isConnectionMode, preventNextSelection>>
    ELSE /\ IF Truthy(targetNodeId) /\ targetNodeId # Get(connectionDragStartNode, K("id"))
            THEN createConnection(Get(connectionDragStartNode, K("id")), targetNodeId)
            ELSE NoGraphChange
         /\ isConnectionDragging' = FALSE
         /\ connectionDragStartNode' = JsNull
         /\ connectionSourceNodeId' = JsNull
         /\ isConnectionMode' = FALSE
         /\ preventNextSelection' = TRUE

\* prevNodes.filter(node => node.id !== nodeId)
RemoveNode(q, nodeId) ==
    LET Keep(node) == Get(node, K("id")) # nodeId IN SelectSeq(q, Keep)

\* variant: only the connections leaving the node are removed
RemoveNodeConnections_SourceOnly(q, nodeId) ==
    LET Keep(c) == Get(c, K("sourceId")) # nodeId IN SelectSeq(q, Keep)

\* prevConnections.filter(c => c.sourceId !== nodeId && c.targetId !== nodeId)
RemoveNodeConnections(q, nodeId) ==
    LET Keep(c) == Get(c, K("sourceId")) # nodeId /\ Get(c, K("targetId")) # nodeId
    IN SelectSeq(q, Keep)

handleNodeDelete(nodeId) ==
    /\ CanPush
    /\ history' = PushHistory
    /\ nodes' = RemoveNode(nodes, nodeId)
    /\ connections' = RemoveNodeConnections(connections, nodeId)
    /\ currentEditingNodeId' =
          IF currentEditingNodeId = nodeId THEN JsNull ELSE currentEditingNodeId
    /\ IF connectionSourceNodeId = nodeId
       THEN /\ connectionSourceNodeId' = JsNull
            /\ isConnectionMode' = FALSE
            /\ IF connectionTimeoutRef # 0
               THEN ClearConnectionTimeout
               ELSE UNCHANGED <<timers, connectionTimeoutRef>>
       ELSE UNCHANGED <<connectionSourceNodeId, isConnectionMode, timers,
                        connectionTimeoutRef>>

\* prevConnections.filter(connection => connection.id !== connectionId)
RemoveConnection(q, connectionId) ==
    LET Keep(c) == Get(c, K("id")) # connectionId IN SelectSeq(q, Keep)

handleConnectionDelete(connectionId) ==
    /\ CanPush
    /\ history' = PushHistory
    /\ connections' = RemoveConnection(connections, connectionId)
    /\ nodes' = nodes
    /\ selectedConnectionId' =
          IF selectedConnectionId = connectionId THEN JsNull ELSE selectedConnectionId

handleConnectionSelect(connectionId) ==
    selectedConnectionId' =
        IF selectedConnectionId = connectionId THEN JsNull ELSE connectionId

handleNodeSelect(nodeId) ==
    IF preventNextSelection
    THEN /\ preventNextSelection' = FALSE
         /\ selectedNodeId' = selectedNodeId
    ELSE /\ selectedNodeId' = (IF selectedNodeId = nodeId THEN JsNull ELSE nodeId)
         /\ preventNextSelection' = preventNextSelection

handleToolChange(tool) ==
    /\ activeTool' = tool
    /\ currentEditingNodeId' =
          IF Truthy(currentEditingNodeId) THEN JsNull ELSE currentEditingNodeId
    /\ IF isConnectionMode
       THEN /\ connectionSourceNodeId' = JsNull
            /\ isConnectionMode' = FALSE
            /\ IF connectionTimeoutRef # 0
               THEN ClearConnectionTimeout
               ELSE UNCHANGED <<timers, connectionTimeoutRef>>
       ELSE UNCHANGED <<connectionSourceNodeId, isConnectionMode, timers,
                        connectionTimeoutRef>>
    /\ selectedConnectionId' =
          IF Truthy(selectedConnectionId) THEN JsNull ELSE selectedConnectionId
    /\ preventNextSelection' = FALSE

\* the "Indietro" button: pop the last snapshot and restore it
undo ==
    /\ Len(history) > 0
    /\ nodes' = history[Len(history)].nodes
    /\ connections' = history[Len(history)].connections
    /\ history' = SubSeq(history, 1, Len(history) - 1)

----------------------------------------------------------------------------
(* Mobile front end: useConnectionOperations, useNodeOperations, MindMapScreen *)

\* the Connection object the mobile createConnection builds
NewMobileConnection(sourceNodeId, targetNodeId, random) ==
    Obj((K("id") :> Str(<<"connection", "-", ToString(now), "-", ToString(random)>>)) @@
        (K("sourceId") :> sourceNodeId) @@ (K("targetId") :> targetNodeId) @@
        (K("type") :> S1("curved")) @@ (K("curvature") :> Tenths(3)) @@
        (K("color") :> S1("#6b7280")) @@ (K("width") :> Num(2)) @@
        (K("showArrow") :> JsTrue) @@ (K("arrowPosition") :> S1("end")))

\* useConnectionOperations.createConnection
mobileCreateConnection(sourceNodeId, targetNodeId, random) ==
    IF \/ sourceNodeId = targetNodeId
       \/ connectionExists(connections, sourceNodeId, targetNodeId)
    THEN UNCHANGED <<connections, connectionSourceNodeId, timers>>
    ELSE /\ connections' = Append(connections,
                              NewMobileConnection(sourceNodeId, targetNodeId, random))
         /\ connectionSourceNodeId' = JsNull
         /\ timers' = ClearTimeout(timers, connectionTimeoutRef)

\* useConnectionOperations.handleConnectionClick; MindMapScreen also passes it
\* to every node as onConnectionClick, with the node's id as argument
mobileHandleConnectionClick(connectionId) ==
    /\ connectionSourceNodeId' = JsNull
    /\ IF selectedConnectionId = connectionId
       THEN /\ selectedConnectionId' = JsNull
            /\ timers' = ClearTimeout(timers, connectionTimeoutRef)
            /\ UNCHANGED <<currentEditingNodeId, connectionTimeoutRef>>
       ELSE /\ selectedConnectionId' = connectionId
            /\ currentEditingNodeId' = JsNull
            /\ LET handle == FreshTimerId
               IN /\ timers' = SetTimeout(ClearTimeout(timers, connectionTimeoutRef),
                                          handle, "deselect", CONNECTION_TIMEOUT)
                  /\ connectionTimeoutRef' = handle

\* the timer callback armed by the mobile handleConnectionClick
mobileDeselectCallback(t) ==
    /\ selectedConnectionId' = JsNull
    /\ timers' = timers \ {t}

\* useConnectionOperations.handleConnectionDelete
mobileHandleConnectionDelete(connectionId) ==
    /\ connections' = RemoveConnection(connections, connectionId)
    /\ selectedConnectionId' =
          IF selectedConnectionId = connectionId THEN JsNull ELSE selectedConnectionId
    /\ timers' = ClearTimeout(timers, connectionTimeoutRef)

\* useNodeOperations.handleNodeDelete
mobileHandleNodeDelete(nodeId) ==
    /\ nodes' = RemoveNode(nodes, nodeId)
    /\ connections' = RemoveNodeConnections(connections, nodeId)
    /\ currentEditingNodeId' =
          IF currentEditingNodeId = nodeId THEN JsNull ELSE currentEditingNodeId
    /\ connectionSourceNodeId' =
          IF connectionSourceNodeId = nodeId THEN JsNull ELSE connectionSourceNodeId

\* MindMapScreen.handleToolChange
mobileHandleToolChange(tool) ==
    /\ activeTool' = tool
    /\ currentEditingNodeId' =
          IF Truthy(currentEditingNodeId) THEN JsNull ELSE currentEditingNodeId
    /\ connectionSourceNodeId' =
          IF Truthy(connectionSourceNodeId) THEN JsNull ELSE connectionSourceNodeId
    /\ selectedConnectionId' =
          IF Truthy(selectedConnectionId) THEN JsNull ELSE selectedConnectionId

----------------------------------------------------------------------------
(* The gesture specification: the handlers as the components invoke them *)

WebTools == {"select", "pencil", "eraser"}
MobileTools == {"select", "pencil", "connection"}

CoordIdle == [pc |-> "off"]
PatchIdle == [pc |-> "off"]
UiIdle == [pc |-> "off"]

\* the handler that ran: name, arguments, outcome
Did(op, a, b, r) ==
    /\ last' = [op |-> op, a |-> a, b |-> b, r |-> r]
    /\ UNCHANGED <<platform, coord, pm, ui>>

\* both front ends after mount, showing the three-node default map
InitSession ==
    /\ platform \in {"web", "mobile"}
    /\ nodes = defaultNodes
    /\ connections = defaultConnections
    /\ history = <<>>
    /\ currentEditingNodeId = JsNull
    /\ connectionSourceNodeId = JsNull
    /\ isConnectionMode = FALSE
    /\ connectionTimeoutRef = 0
    /\ timers = {}
    /\ selectedConnectionId = JsNull
    /\ selectedNodeId = JsNull
    /\ preventNextSelection = FALSE
    /\ isConnectionDragging = FALSE
    /\ connectionDragStartNode = JsNull
    /\ activeTool = "select"
    /\ now = 0
    /\ last = [op |-> "init", a |-> JsUndefined, b |-> JsUndefined, r |-> ""]
    /\ pendingElapsed = -1

Init ==
    /\ InitSession
    /\ coord = CoordIdle
    /\ pm = PatchIdle
    /\ ui = UiIdle

\* MindMapNode.handleClick reaches onConnectionClick: the click is not
\* swallowed, the tool is not the eraser, and Ctrl is held or another node is
\* the connection source
ConnectionClick(nodeId, isCtrlClick) ==
    /\ platform = "web"
    /\ nodeId \in IdsOf(nodes)
    /\ ~preventNextSelection
    /\ activeTool # "eraser"
    /\ isCtrlClick \/ (isConnectionMode /\ activeTool = "select"
                          /\ connectionSourceNodeId # nodeId)
    /\ handleConnectionClick(nodeId, isCtrlClick)
    /\ UNCHANGED <<currentEditingNodeId, selectedConnectionId, selectedNodeId,
                   isConnectionDragging, connectionDragStartNode, activeTool, now>>
    /\ pendingElapsed' = IF ~Truthy(connectionSourceNodeId) THEN 0 ELSE -1
    /\ Did("handleConnectionClick", nodeId,
           IF isCtrlClick THEN JsTrue ELSE JsFalse,
           IF ~Truthy(connectionSourceNodeId) THEN "entered"
           ELSE IF connectionSourceNodeId = nodeId THEN "cancelled"
           ELSE IF createConnectionAccepts(connectionSourceNodeId, nodeId)
                THEN "committed" ELSE "rejected")

\* MindMapNode.handleMouseDown with Ctrl held, select tool
ConnectionDragStart(nodeId) ==
    /\ platform = "web"
    /\ nodeId \in IdsOf(nodes)
    /\ ~preventNextSelection
    /\ activeTool = "select"
    /\ handleConnectionDragStart(nodeId)
    /\ UNCHANGED <<currentEditingNodeId, selectedConnectionId, selectedNodeId,
                   preventNextSelection, activeTool, now>>
    /\ pendingElapsed' = -1
    /\ Did("handleConnectionDragStart", nodeId, JsUndefined, "")

DragEndOutcome(targetNodeId) ==
    IF ~Truthy(connectionDragStartNode) THEN "ignored"
    ELSE IF ~Truthy(targetNodeId)
            \/ targetNodeId = Get(connectionDragStartNode, K("id")) THEN "cancelled"
    ELSE IF createConnectionAccepts(Get(connectionDragStartNode, K("id")), targetNodeId)
         THEN "committed" ELSE "rejected"

\* MindMapNode.handleMouseUp over a node that is not the connection source
ConnectionDragEndOnNode(nodeId) ==
    /\ platform = "web"
    /\ nodeId \in IdsOf(nodes)
    /\ activeTool = "select"
    /\ isConnectionMode
    /\ connectionSourceNodeId # nodeId
    /\ handleConnectionDragEnd(nodeId)
    /\ UNCHANGED <<currentEditingNodeId, selectedConnectionId, selectedNodeId,
                   timers, connectionTimeoutRef, activeTool, now>>
    /\ pendingElapsed' = -1
    /\ Did("handleConnectionDragEnd", nodeId, JsUndefined, DragEndOutcome(nodeId))

\* MindMapPage.handleMouseUp over the background while a connection is dragged
ConnectionDragEndOnBackground ==
    /\ platform = "web"
    /\ isConnectionDragging
    /\ handleConnectionDragEnd(JsUndefined)
    /\ UNCHANGED <<currentEditingNodeId, selectedConnectionId, selectedNodeId,
                   timers, connectionTimeoutRef, activeTool, now>>
    /\ pendingElapsed' = -1
    /\ Did("handleConnectionDragEnd", JsUndefined, JsUndefined,
           DragEndOutcome(JsUndefined))

\* a click in the node's delete area, or a Ctrl-click on a node with the eraser
NodeDelete(nodeId) ==
    /\ platform = "web"
    /\ nodeId \in IdsOf(nodes)
    /\ ~preventNextSelection
    /\ handleNodeDelete(nodeId)
    /\ UNCHANGED <<selectedConnectionId, selectedNodeId, preventNextSelection,
                   isConnectionDragging, connectionDragStartNode, activeTool, now>>
    /\ pendingElapsed' = -1
    /\ Did("handleNodeDelete", nodeId, JsUndefined, "")

\* a click on a connection with the eraser, or Delete on the selected connection
ConnectionDelete(connectionId) ==
    /\ platform = "web"
    /\ connectionId \in IdsOf(connections)
    /\ \/ activeTool = "eraser"
       \/ selectedConnectionId = connectionId /\ ~Truthy(currentEditingNodeId)
    /\ handleConnectionDelete(connectionId)
    /\ UNCHANGED <<currentEditingNodeId, connectionSourceNodeId, isConnectionMode,
                   connectionTimeoutRef, timers, selectedNodeId, preventNextSelection,
                   isConnectionDragging, connectionDragStartNode, activeTool, now>>
    /\ pendingElapsed' = pendingElapsed
    /\ Did("handleConnectionDelete", connectionId, JsUndefined, "")

\* a click on a connection with another tool than the eraser
ConnectionSelect(connectionId) ==
    /\ platform = "web"
    /\ connectionId \in IdsOf(connections)
    /\ activeTool # "eraser"
    /\ handleConnectionSelect(connectionId)
    /\ NoGraphChange
    /\ UNCHANGED <<currentEditingNodeId, connectionSourceNodeId, isConnectionMode,
                   connectionTimeoutRef, timers, selectedNodeId, preventNextSelection,
                   isConnectionDragging, connectionDragStartNode, activeTool, now>>
    /\ pendingElapsed' = pendingElapsed
    /\ Did("handleConnectionSelect", connectionId, JsUndefined, "")

\* MindMapNode.handleClick reaches onSelectionChange: a plain single click
NodeSelect(nodeId) ==
    /\ platform = "web"
    /\ nodeId \in IdsOf(nodes)
    /\ ~preventNextSelection
    /\ ~(isConnectionMode /\ activeTool = "select" /\ connectionSourceNodeId # nodeId)
    /\ handleNodeSelect(nodeId)
    /\ NoGraphChange
    /\ UNCHANGED <<currentEditingNodeId, connectionSourceNodeId, isConnectionMode,
                   connectionTimeoutRef, timers, selectedConnectionId,
                   isConnectionDragging, connectionDragStartNode, activeTool, now>>
    /\ pendingElapsed' = pendingElapsed
    /\ Did("handleNodeSelect", nodeId, JsUndefined, "")

\* onConsumePreventSelection: the press or click after a commit is swallowed
ConsumePreventSelection ==
    /\ platform = "web"
    /\ preventNextSelection
    /\ preventNextSelection' = FALSE
    /\ NoGraphChange
    /\ UNCHANGED <<currentEditingNodeId, connectionSourceNodeId, isConnectionMode,
                   connectionTimeoutRef, timers, selectedConnectionId, selectedNodeId,
                   isConnectionDragging, connectionDragStartNode, activeTool, now>>
    /\ pendingElapsed' = -1
    /\ Did("onConsumePreventSelection", JsUndefined, JsUndefined, "")

ToolChange(tool) ==
    /\ platform = "web"
    /\ handleToolChange(tool)
    /\ NoGraphChange
    /\ UNCHANGED <<selectedNodeId, isConnectionDragging, connectionDragStartNode, now>>
    /\ pendingElapsed' = -1
    /\ Did("handleToolChange", S1(tool), JsUndefined, "")

Undo ==
    /\ platform = "web"
    /\ undo
    /\ UNCHANGED sessionVars
    /\ UNCHANGED now
    /\ pendingElapsed' = pendingElapsed
    /\ Did("undo", JsUndefined, JsUndefined, "")

\* a timer whose delay has elapsed runs its callback
ConnectionTimeout ==
    /\ platform = "web"
    /\ \E t \in timers :
          /\ t.remaining = 0
          /\ t.kind = "connection"
          /\ connectionTimeoutCallback(t)
    /\ UNCHANGED <<currentEditingNodeId, selectedConnectionId, selectedNodeId,
                   isConnectionDragging, connectionDragStartNode, activeTool, now>>
    /\ pendingElapsed' = -1
    /\ Did("connectionTimeout", JsUndefined, JsUndefined, "")

\* the hook's createConnection (exported by useConnectionOperations)
MobileCreateConnection(sourceNodeId, targetNodeId, random) ==
    /\ platform = "mobile"
    /\ sourceNodeId \in IdsOf(nodes)
    /\ targetNodeId \in IdsOf(nodes)
    /\ mobileCreateConnection(sourceNodeId, targetNodeId, random)
    /\ UNCHANGED <<nodes, history, currentEditingNodeId, isConnectionMode,
                   connectionTimeoutRef, selectedConnectionId, selectedNodeId,
                   preventNextSelection, isConnectionDragging, connectionDragStartNode,
                   activeTool, now, pendingElapsed>>
    /\ Did("createConnection", sourceNodeId, targetNodeId,
           IF sourceNodeId # targetNodeId
              /\ ~connectionExists(connections, sourceNodeId, targetNodeId)
           THEN "committed" ELSE "rejected")

\* a tap on a connection, or a tap on a node outside its delete area; the
\* record of the call keeps the selection the handler found
MobileConnectionClick(id) ==
    /\ platform = "mobile"
    /\ id \in IdsOf(connections) \cup IdsOf(nodes)
    /\ mobileHandleConnectionClick(id)
    /\ NoGraphChange
    /\ UNCHANGED <<isConnectionMode, selectedNodeId, preventNextSelection,
                   isConnectionDragging, connectionDragStartNode, activeTool, now,
                   pendingElapsed>>
    /\ Did("handleConnectionClick", id, selectedConnectionId, "")

MobileConnectionDelete(connectionId) ==
    /\ platform = "mobile"
    /\ connectionId \in IdsOf(connections)
    /\ mobileHandleConnectionDelete(connectionId)
    /\ UNCHANGED <<nodes, history, currentEditingNodeId, connectionSourceNodeId,
                   isConnectionMode, connectionTimeoutRef, selectedNodeId,
                   preventNextSelection, isConnectionDragging, connectionDragStartNode,
                   activeTool, now, pendingElapsed>>
    /\ Did("handleConnectionDelete", connectionId, JsUndefined, "")

\* a tap in the node's delete area
MobileNodeDelete(nodeId) ==
    /\ platform = "mobile"
    /\ nodeId \in IdsOf(nodes)
    /\ mobileHandleNodeDelete(nodeId)
    /\ UNCHANGED <<history, isConnectionMode, connectionTimeoutRef, timers,
                   selectedConnectionId, selectedNodeId, preventNextSelection,
                   isConnectionDragging, connectionDragStartNode, activeTool, now,
                   pendingElapsed>>
    /\ Did("handleNodeDelete", nodeId, JsUndefined, "")

MobileToolChange(tool) ==
    /\ platform = "mobile"
    /\ mobileHandleToolChange(tool)
    /\ NoGraphChange
    /\ UNCHANGED <<isConnectionMode, connectionTimeoutRef, timers, selectedNodeId,
                   preventNextSelection, isConnectionDragging, connectionDragStartNode,
                   now, pendingElapsed>>
    /\ Did("handleToolChange", S1(tool), JsUndefined, "")

MobileDeselectTimeout ==
    /\ platform = "mobile"
    /\ \E t \in timers :
          /\ t.remaining = 0
          /\ t.kind = "deselect"
          /\ mobileDeselectCallback(t)
    /\ NoGraphChange
    /\ UNCHANGED <<currentEditingNodeId, connectionSourceNodeId, isConnectionMode,
                   connectionTimeoutRef, selectedNodeId, preventNextSelection,
                   isConnectionDragging, connectionDragStartNode, activeTool, now,
                   pendingElapsed>>
    /\ Did("deselectTimeout", JsUndefined, JsUndefined, "")

Min(a, b) == IF a < b THEN a ELSE b
Max(a, b) == IF a > b THEN a ELSE b

RECURSIVE MinRemaining(_, _)
MinRemaining(ts, bound) ==
    IF ts = {} THEN bound
    ELSE LET t == CHOOSE x \in ts : TRUE
         IN MinRemaining(ts \ {t}, Min(bound, t.remaining))

\* time passes, but never beyond the moment a live timer is due
Tick ==
    LET d == MinRemaining(timers, Min(TickMs, MaxNow - now))
    IN /\ d > 0
       /\ now' = now + d
       /\ timers' = {[t EXCEPT !.remaining = @ - d] : t \in timers}
       /\ pendingElapsed' = IF pendingElapsed >= 0 THEN pendingElapsed + d ELSE -1
       /\ NoGraphChange
       /\ UNCHANGED <<currentEditingNodeId, connectionSourceNodeId, isConnectionMode,
                      connectionTimeoutRef, selectedConnectionId, selectedNodeId,
                      preventNextSelection, isConnectionDragging,
                      connectionDragStartNode, activeTool>>
       /\ Did("tick", JsUndefined, JsUndefined, "")

Next ==
    \/ \E nodeId \in IdsOf(nodes), isCtrlClick \in BOOLEAN :
          ConnectionClick(nodeId, isCtrlClick)
    \/ \E nodeId \in IdsOf(nodes) : ConnectionDragStart(nodeId)
    \/ \E nodeId \in IdsOf(nodes) : ConnectionDragEndOnNode(nodeId)
    \/ ConnectionDragEndOnBackground
    \/ \E nodeId \in IdsOf(nodes) : NodeDelete(nodeId)
    \/ \E connectionId \in IdsOf(connections) : ConnectionDelete(connectionId)
    \/ ConsumePreventSelection
    \/ \E tool \in WebTools : ToolChange(tool)
    \/ Undo
    \/ ConnectionTimeout
    \/ \E s \in IdsOf(nodes), t \in IdsOf(nodes), random \in 1..NumRandom :
          MobileCreateConnection(s, t, random)
    \/ \E connectionId \in IdsOf(connections) : MobileConnectionDelete(connectionId)
    \/ \E nodeId \in IdsOf(nodes) : MobileNodeDelete(nodeId)
    \/ Tick

Spec == Init /\ [][Next]_vars

----------------------------------------------------------------------------
(* World and screen coordinates: node render and onPositionChange *)

\* Lengths are counted in quarters of a pixel. The inputs are multiples of
\* half a pixel of small magnitude, where the double arithmetic of the code
\* is exact, and so is their halving.
Px(v) == 4 * v
HalfPx(i) == 2 * i
Abs(v) == IF v < 0 THEN -v ELSE v

MaxHalf == 2              \* near positions range over -MaxHalf..MaxHalf half pixels
CANVAS_SIZE == 5000
CANVAS_CENTER == CANVAS_SIZE \div 2
POSITION_LIMIT == 50000   \* mobile: larger |relative| drops are ignored
SCREEN_LIMIT == 100000    \* mobile: nodes further out are not rendered

NearPositions == {HalfPx(i) : i \in -MaxHalf..MaxHalf}
FarPositions == {Px(POSITION_LIMIT), Px(POSITION_LIMIT) + HalfPx(1),
                 -Px(POSITION_LIMIT) - HalfPx(1), Px(SCREEN_LIMIT + CANVAS_CENTER)}
\* calculateNodeSize results
NodeSizes == {[width |-> Px(120), height |-> Px(65)],
              [width |-> Px(160), height |-> Px(75)]}
\* the viewport before and after it is measured
Viewports == {[width |-> 0, height |-> 0], [width |-> Px(1280), height |-> Px(721)]}
\* the scroll offset: initial, and after a pan
Offsets == {[x |-> Px(CANVAS_CENTER), y |-> Px(CANVAS_CENTER)],
            [x |-> Px(2400) + HalfPx(1), y |-> Px(2600)]}

CoordInputs ==
    [pc : {"input"},
     node : [x : NearPositions \cup FarPositions,
             y : {0, HalfPx(1), -Px(POSITION_LIMIT) - HalfPx(1)}],
     nodeDimensions : NodeSizes,
     dimensions : Viewports,
     offset : Offsets]

\* screenX = dimensions.width / 2 + node.x - nodeDimensions.width / 2
\*           - offset.x + CANVAS_CENTER
worldToScreen(c) ==
    [x |-> c.dimensions.width \div 2 + c.node.x - c.nodeDimensions.width \div 2
             - c.offset.x + Px(CANVAS_CENTER),
     y |-> c.dimensions.height \div 2 + c.node.y - c.nodeDimensions.height \div 2
             - c.offset.y + Px(CANVAS_CENTER)]

\* variant: the node's half size is subtracted again on the way back
screenToWorld_HalfSizeSubtracted(c, screen) ==
    [x |-> screen.x - c.dimensions.width \div 2 - c.nodeDimensions.width \div 2
             + c.offset.x - Px(CANVAS_CENTER),
     y |-> screen.y - c.dimensions.height \div 2 - c.nodeDimensions.height \div 2
             + c.offset.y - Px(CANVAS_CENTER)]

\* relativeX = newX - dimensions.width / 2 + nodeDimensions.width / 2
\*             + offset.x - CANVAS_CENTER
screenToWorld(c, screen) ==
    [x |-> screen.x - c.dimensions.width \div 2 + c.nodeDimensions.width \div 2
             + c.offset.x - Px(CANVAS_CENTER),
     y |-> screen.y - c.dimensions.height \div 2 + c.nodeDimensions.height \div 2
             + c.offset.y - Px(CANVAS_CENTER)]

\* the mobile render returns null for a node too far from the screen
renderShows(screen) ==
    platform = "web" \/ (Abs(screen.x) <= Px(SCREEN_LIMIT) /\ Abs(screen.y) <= Px(SCREEN_LIMIT))

\* the mobile onPositionChange returns before handleNodePositionChange when
\* the position is too large
dropAccepted(relative) ==
    platform = "web" \/ (Abs(relative.x) <= Px(POSITION_LIMIT) /\ Abs(relative.y) <= Px(POSITION_LIMIT))

sessionIdle == UNCHANGED <<platform, nodes, connections, history, currentEditingNodeId,
                           connectionSourceNodeId, isConnectionMode, connectionTimeoutRef,
                           timers, selectedConnectionId, selectedNodeId,
                           preventNextSelection, isConnectionDragging,
                           connectionDragStartNode, activeTool, now, last,
                           pendingElapsed, ui>>

InitCoord ==
    /\ InitSession
    /\ coord \in CoordInputs
    /\ pm = PatchIdle
    /\ ui = UiIdle

\* the node is rendered at its screen position, or not at all
Render ==
    /\ coord.pc = "input"
    /\ LET screen == worldToScreen(coord)
       IN coord' = [pc |-> IF renderShows(screen) THEN "rendered" ELSE "hidden",
                    input |-> coord, screen |-> screen]
    /\ sessionIdle
    /\ UNCHANGED pm

\* the rendered node reports the position it was rendered at
PositionChange ==
    /\ coord.pc = "rendered"
    /\ LET relative == screenToWorld(coord.input, coord.screen)
       IN coord' = [pc |-> "dropped", input |-> coord.input, screen |-> coord.screen,
                    relative |-> relative, accepted |-> dropAccepted(relative)]
    /\ sessionIdle
    /\ UNCHANGED pm

NextCoord == Render \/ PositionChange

SpecCoord == InitCoord /\ [][NextCoord]_vars

\* C4: a node rendered at the screen position of its world position p and
\* dropped there, with the same node size, viewport and scroll offset, is
\* given the world position p again, on both front ends; the mobile front
\* end hands the position on only when neither coordinate exceeds 50000.
C4_RoundTrip ==
    coord.pc = "dropped" =>
        /\ coord.relative = coord.input.node
        /\ coord.accepted <=>
              \/ platform = "web"
              \/ /\ Abs(coord.input.node.x) <= Px(POSITION_LIMIT)
                 /\ Abs(coord.input.node.y) <= Px(POSITION_LIMIT)

\* a half-pixel position seen through a measured viewport after a pan, on the
\* mobile front end
C4_Witness ==
    /\ coord.pc = "dropped"
    /\ platform = "mobile"
    /\ coord.input.node = [x |-> -HalfPx(1), y |-> HalfPx(1)]
    /\ coord.input.dimensions.height = Px(721)
    /\ coord.input.offset.y = Px(2600)
    /\ coord.screen.x # coord.input.node.x
    /\ coord.accepted

----------------------------------------------------------------------------
(* applyJsonPatch: strings, property access and arrays of JavaScript *)

\* A string is its sequence of tokens. The characters '/', '~', '-', ' ' and
\* the digits are tokens of their own; a word without them is one token.

\* s.split('/')
RECURSIVE split(_)
split(toks) ==
    IF toks = <<>> THEN << <<>> >>
    ELSE LET rest == split(Tail(toks))
         IN IF Head(toks) = "/" THEN << <<>> >> \o rest
            ELSE << <<Head(toks)>> \o Head(rest) >> \o Tail(rest)

\* q.slice(1)
slice1(q) == IF q = <<>> THEN <<>> ELSE Tail(q)

\* seg.replace(/ab/g, r) for the two-character pattern ab
RECURSIVE replacePair(_, _, _, _)
replacePair(seg, a, b, r) ==
    IF Len(seg) < 2 THEN seg
    ELSE IF seg[1] = a /\ seg[2] = b
         THEN <<r>> \o replacePair(SubSeq(seg, 3, Len(seg)), a, b, r)
         ELSE <<seg[1]>> \o replacePair(Tail(seg), a, b, r)

decodePointerSegment(seg) ==
    replacePair(replacePair(seg, "~", "1", "/"), "~", "0", "~")

Digits == {"0", "1", "2", "3", "4", "5", "6", "7", "8", "9"}
DigitValue(tok) == CHOOSE d \in 0..9 : ToString(d) = tok

RECURSIVE stripLeft(_)
stripLeft(seg) ==
    IF seg # <<>> /\ Head(seg) = " " THEN stripLeft(Tail(seg)) ELSE seg

\* the value of the longest prefix of digits, continuing from acc
RECURSIVE digitsValue(_, _)
digitsValue(seg, acc) ==
    IF seg = <<>> \/ Head(seg) \notin Digits THEN acc
    ELSE digitsValue(Tail(seg), 10 * acc + DigitValue(Head(seg)))

\* parseInt(seg, 10): leading blanks, a sign, then the longest run of digits;
\* whatever follows the digits is ignored; NaN when there is no digit
parseInt(seg) ==
    LET s1 == stripLeft(seg)
        signed == s1 # <<>> /\ Head(s1) \in {"-", "+"}
        s2 == IF signed THEN Tail(s1) ELSE s1
    IN IF s2 = <<>> \/ Head(s2) \notin Digits
       THEN [nan |-> TRUE, n |-> 0]
       ELSE [nan |-> FALSE,
             n |-> IF signed /\ Head(s1) = "-" THEN -digitsValue(s2, 0)
                   ELSE digitsValue(s2, 0)]

\* the key is a canonical array index: digits only, no leading zero
IsIndexKey(key) ==
    /\ key # <<>>
    /\ \A i \in 1..Len(key) : key[i] \in Digits
    /\ Len(key) > 1 => key[1] # "0"

Threw == [threw |-> TRUE, v |-> JsUndefined]
Returned(v) == [threw |-> FALSE, v |-> v]

IsPrimitive(v) == v.k \in {"string", "number", "boolean"}

\* cursor[key]: a TypeError on null and undefined
GetProp(v, key) ==
    CASE v.k \in {"null", "undefined"} -> Threw
      [] v.k = "object" -> Returned(Get(v, key))
      [] v.k = "array" ->
            Returned(IF IsIndexKey(key)
                     THEN IF digitsValue(key, 0) < Len(v.a)
                          THEN v.a[digitsValue(key, 0) + 1] ELSE JsUndefined
                     ELSE IF key = <<"length">> THEN Num(Len(v.a))
                     ELSE IF key \in DOMAIN v.o THEN v.o[key] ELSE JsUndefined)
      [] v.k = "string" ->
            Returned(IF IsIndexKey(key) /\ digitsValue(key, 0) < Len(v.s)
                     THEN Str(<<v.s[digitsValue(key, 0) + 1]>>)
                     ELSE IF key = <<"length">> THEN Num(Len(v.s))
                     ELSE JsUndefined)
      [] OTHER -> Returned(JsUndefined)

\* the array q with length n: cut, or filled up with holes
RECURSIVE Resize(_, _)
Resize(q, n) ==
    IF Len(q) >= n THEN SubSeq(q, 1, n) ELSE Resize(Append(q, JsUndefined), n)

\* cursor[key] = x in strict mode: a TypeError on anything but an object or
\* an array; an array grows, with holes, to hold the index
SetProp(v, key, x) ==
    CASE v.k = "object" -> Returned([v EXCEPT !.o = (key :> x) @@ @])
      [] v.k = "array" ->
            IF IsIndexKey(key)
            THEN LET idx == digitsValue(key, 0)
                     q == Resize(v.a, IF idx < Len(v.a) THEN Len(v.a) ELSE idx + 1)
                 IN Returned([v EXCEPT !.a = [q EXCEPT ![idx + 1] = x]])
            ELSE IF key = <<"length">>
            THEN IF x.k = "number" /\ x.s = <<>> /\ x.n >= 0
                 THEN Returned([v EXCEPT !.a = Resize(@, x.n)])
                 ELSE Threw
            ELSE Returned([v EXCEPT !.o = (key :> x) @@ @])
      [] OTHER -> Threw

\* delete cursor[key] in strict mode
DeleteProp(v, key) ==
    CASE v.k \in {"null", "undefined"} -> Threw
      [] v.k = "object" ->
            Returned([v EXCEPT !.o = [x \in DOMAIN @ \ {key} |-> @[x]]])
      [] v.k = "array" ->
            IF IsIndexKey(key)
            THEN IF digitsValue(key, 0) < Len(v.a)
                 THEN Returned([v EXCEPT !.a[digitsValue(key, 0) + 1] = JsUndefined])
                 ELSE Returned(v)
            ELSE IF key = <<"length">> THEN Threw
            ELSE Returned([v EXCEPT !.o = [x \in DOMAIN @ \ {key} |-> @[x]]])
      [] v.k = "string" ->
            IF (IsIndexKey(key) /\ digitsValue(key, 0) < Len(v.s)) \/ key = <<"length">>
            THEN Threw ELSE Returned(v)
      [] OTHER -> Returned(v)

\* q.splice(start, 0, x): a negative start counts from the end, a start
\* beyond the end appends
spliceInsert(q, start, x) ==
    LET at == IF start < 0 THEN (IF Len(q) + start < 0 THEN 0 ELSE Len(q) + start)
              ELSE IF start > Len(q) THEN Len(q) ELSE start
    IN SubSeq(q, 1, at) \o <<x>> \o SubSeq(q, at + 1, Len(q))

\* q.splice(index, 1) for an index of q
spliceRemove(q, index) == SubSeq(q, 1, index) \o SubSeq(q, index + 2, Len(q))

----------------------------------------------------------------------------
(* applyJsonPatch: the heap of one call and the processing of one operation *)

\* The objects of the input state live in heap.items and the arrays hold
\* references to them, so that a write through a shared reference, or into
\* the state's own arrays, shows in the input. A value copied by clone is a
\* new item.
Ref(i) == [k |-> "ref", n |-> i, s |-> <<>>, o |-> EmptyObj, a |-> <<>>]

Deref(h, v) == IF v.k = "ref" THEN h.items[v.n] ELSE v

\* the array named name as the values it holds
View(h, name) == [i \in 1..Len(h[name]) |-> Deref(h, h[name][i])]

\* variant: the copy is the object itself
clone_SameObject(h, v) == [threw |-> Deref(h, v).k = "undefined", heap |-> h, v |-> v]

\* clone(v) = JSON.parse(JSON.stringify(v)); JSON.parse(undefined) throws
clone(h, v) ==
    LET plain == Deref(h, v)
    IN CASE plain.k = "undefined" -> [threw |-> TRUE, heap |-> h, v |-> JsUndefined]
         [] plain.k \in {"object", "array"} ->
               [threw |-> FALSE,
                heap |-> [h EXCEPT !.items = Append(@, JsonCopy(plain))],
                v |-> Ref(Len(h.items) + 1)]
         [] OTHER -> [threw |-> FALSE, heap |-> h, v |-> plain]

\* the object behind ref takes the value v
StoreItem(h, ref, v) == IF ref.k = "ref" THEN [h EXCEPT !.items[ref.n] = v] ELSE h

Continue(h) == [threw |-> FALSE, heap |-> h]
Throws(h) == [threw |-> TRUE, heap |-> h]

\* if (v[key] === undefined) v[key] = x
setIfUndefined(r, key, x) ==
    IF r.threw THEN r
    ELSE IF GetProp(r.v, key).v.k = "undefined" THEN SetProp(r.v, key, x) ELSE r

\* if (typeof v[key] !== 'number') v[key] = x
setIfNotNumber(r, key, x) ==
    IF r.threw THEN r
    ELSE IF GetProp(r.v, key).v.k # "number" THEN SetProp(r.v, key, x) ELSE r

\* variant: the default width is 1
connectionDefaults_Width1(v) ==
    setIfUndefined(setIfUndefined(setIfUndefined(setIfUndefined(setIfUndefined(
    setIfUndefined(Returned(v),
        K("type"), S1("curved")),
        K("width"), Num(1)),
        K("showArrow"), JsTrue),
        K("arrowPosition"), S1("end")),
        K("color"), S1("#6b7280")),
        K("relation"), S1("generico"))

\* the styling defaults of an appended connection
connectionDefaults(v) ==
    setIfUndefined(setIfUndefined(setIfUndefined(setIfUndefined(setIfUndefined(
    setIfUndefined(Returned(v),
        K("type"), S1("curved")),
        K("width"), Num(2)),
        K("showArrow"), JsTrue),
        K("arrowPosition"), S1("end")),
        K("color"), S1("#6b7280")),
        K("relation"), S1("generico"))

\* the position defaults of an appended node
nodeDefaults(v) ==
    setIfNotNumber(setIfNotNumber(Returned(v), K("x"), Num(0)), K("y"), Num(0))

\* arr.push(value) after the defaults of the target were filled into value
pushWithDefaults(h, name, target, value) ==
    LET r == IF target = K("nodes") THEN nodeDefaults(Deref(h, value))
             ELSE connectionDefaults(Deref(h, value))
    IN IF r.threw THEN Throws(h)
       ELSE Continue([StoreItem(h, value, r.v) EXCEPT ![name] = Append(@, value)])

InRange(index, arr) == index >= 0 /\ index < Len(arr)

\* segments.length === 1: the path names the array itself
rootOperation(h, name, target, op) ==
    LET path == op.path.s
    IN IF /\ op.op = "add"
          /\ Truthy(op.value)
          /\ Len(path) >= 2 /\ SubSeq(path, Len(path) - 1, Len(path)) = <<"/", "-">>
       THEN LET c == clone(h, op.value)
            IN pushWithDefaults(c.heap, name, target, c.v)
       ELSE Continue(h)

\* variant: replace inserts the value before the item
replaceItem_Inserts(h, name, index, value) ==
    LET c == clone(h, value)
    IN Continue([c.heap EXCEPT ![name] = spliceInsert(@, index, c.v)])

\* arr[index] = clone(op.value)
replaceItem(h, name, index, value) ==
    LET c == clone(h, value)
    IN Continue([c.heap EXCEPT ![name][index + 1] = c.v])

\* segments.length === 2: the whole item at index, or an append
itemOperation(h, name, target, op, isAppend, index) ==
    LET arr == h[name]
    IN CASE op.op = "remove" /\ ~isAppend ->
               IF InRange(index, arr)
               THEN Continue([h EXCEPT ![name] = spliceRemove(arr, index)])
               ELSE Continue(h)
         [] op.op = "replace" /\ ~isAppend ->
               IF InRange(index, arr) /\ op.value.k # "undefined"
               THEN replaceItem(h, name, index, op.value)
               ELSE Continue(h)
         [] op.op = "add" ->
               IF op.value.k = "undefined" THEN Continue(h)
               ELSE LET c == clone(h, op.value)
                    IN IF ~Truthy(c.v) THEN Continue(h)
                       ELSE IF isAppend
                       THEN pushWithDefaults(c.heap, name, target, c.v)
                       ELSE IF index >= 0 /\ index <= Len(arr)
                       THEN Continue([c.heap EXCEPT ![name] = spliceInsert(@, index, c.v)])
                       ELSE Continue(h)
         [] OTHER -> Continue(h)

Ok(v) == [st |-> "ok", v |-> v]
Skip == [st |-> "skip", v |-> JsUndefined]
Throw == [st |-> "throw", v |-> JsUndefined]
FromWrite(r) == IF r.threw THEN Throw ELSE Ok(r.v)

\* JSON.parse(JSON.stringify(op.value)) of a value nested in an item
cloneValue(v) == IF v.k = "undefined" THEN Threw ELSE Returned(JsonCopy(v))

\* the last key applied to the cursor, for each kind of operation
lastKeyOperation(cursor, opName, lastKey, value) ==
    LET isArray == cursor.k = "array"
        idx == parseInt(lastKey)
    IN CASE opName = "remove" ->
               IF isArray /\ lastKey = <<"-">>
               THEN Ok([cursor EXCEPT !.a = SubSeq(@, 1, Len(@) - 1)])
               ELSE IF isArray /\ ~idx.nan
               THEN IF InRange(idx.n, cursor.a)
                    THEN Ok([cursor EXCEPT !.a = spliceRemove(@, idx.n)])
                    ELSE Ok(cursor)
               ELSE FromWrite(DeleteProp(cursor, lastKey))
         [] opName = "replace" ->
               LET c == cloneValue(value)
               IN IF c.threw THEN Throw ELSE FromWrite(SetProp(cursor, lastKey, c.v))
         [] opName = "add" ->
               LET c == cloneValue(value)
               IN IF isArray /\ lastKey = <<"-">>
                  THEN IF c.threw THEN Throw ELSE Ok([cursor EXCEPT !.a = Append(@, c.v)])
                  ELSE IF isArray /\ ~idx.nan
                  THEN IF c.threw THEN Throw
                       ELSE Ok([cursor EXCEPT !.a = spliceInsert(@, idx.n, c.v)])
                  ELSE IF c.threw THEN Throw ELSE FromWrite(SetProp(cursor, lastKey, c.v))
         [] OTHER -> Ok(cursor)

\* cursor with the value at key replaced by the value the walk below left there
Put(cursor, key, v) ==
    IF cursor.k \in {"object", "array"} THEN SetProp(cursor, key, v).v ELSE cursor

\* the loop over segments[2 .. length-2], then the last key: a missing step
\* is created by add and skips every other operation
RECURSIVE walk(_, _, _, _, _)
walk(cursor, keys, opName, lastKey, value) ==
    IF keys = <<>> THEN lastKeyOperation(cursor, opName, lastKey, value)
    ELSE LET key == Head(keys)
             read == GetProp(cursor, key)
         IN IF read.threw THEN Throw
            ELSE IF read.v.k = "undefined"
            THEN IF opName = "add"
                 THEN LET made == SetProp(cursor, key, Obj(EmptyObj))
                      IN IF made.threw THEN Throw
                         ELSE LET below == walk(GetProp(made.v, key).v, Tail(keys),
                                                opName, lastKey, value)
                              IN IF below.st = "ok"
                                 THEN Ok(Put(made.v, key, below.v)) ELSE below
                 ELSE Skip
            ELSE LET below == walk(read.v, Tail(keys), opName, lastKey, value)
                 IN IF below.st = "ok" THEN Ok(Put(cursor, key, below.v)) ELSE below

\* variant: the item is written back at index 0
writeBack_First(h, name, index, item) == [h EXCEPT ![name][1] = item]

\* arr[index] = item
writeBack(h, name, index, item) == [h EXCEPT ![name][index + 1] = item]

\* segments.length > 2: a field of the item at index
nestedOperation(h, name, op, segments, isAppend, index) ==
    LET arr == h[name]
    IN IF isAppend \/ ~InRange(index, arr) THEN Continue(h)
       ELSE LET c == clone(h, arr[index + 1])
            IN IF c.threw THEN Throws(h)
               ELSE LET m == walk(Deref(c.heap, c.v),
                                  SubSeq(segments, 3, Len(segments) - 1),
                                  op.op, segments[Len(segments)], op.value)
                    IN CASE m.st = "throw" -> Throws(h)
                         [] m.st = "skip" -> Continue(h)
                         [] OTHER ->
                               Continue(writeBack(StoreItem(c.heap, c.v, m.v), name, index,
                                                  IF c.v.k = "ref" THEN c.v ELSE m.v))

\* the body of the try block for one operation; working names the arrays
applyOperation(h, working, op) ==
    IF op.path.k # "string" THEN Throws(h)
    ELSE LET rawSegments == slice1(split(op.path.s))
             segments == [i \in 1..Len(rawSegments) |->
                             decodePointerSegment(rawSegments[i])]
         IN IF segments = <<>> \/ segments[1] \notin {K("nodes"), K("connections")}
            THEN Continue(h)
            ELSE LET target == segments[1]
                     name == IF target = K("nodes") THEN working.nodes
                             ELSE working.connections
                 IN IF Len(segments) = 1 THEN rootOperation(h, name, target, op)
                    ELSE LET indexSeg == segments[2]
                             isAppend == indexSeg = <<"-">>
                             parsed == parseInt(indexSeg)
                             index == IF isAppend THEN Len(h[name]) ELSE parsed.n
                         IN IF parsed.nan /\ ~isAppend THEN Continue(h)
                            ELSE IF Len(segments) = 2
                            THEN itemOperation(h, name, target, op, isAppend, index)
                            ELSE nestedOperation(h, name, op, segments, isAppend, index)

\* catch { continue }: an operation that throws leaves no trace
catchContinue(h, outcome) ==
    [heap |-> IF outcome.threw THEN h ELSE outcome.heap, escaped |-> FALSE]

----------------------------------------------------------------------------
(* applyJsonPatch: the call, applied to bounded graphs and patches *)

MaxPatchLen == 2          \* operations in a patch

RECURSIVE joinPath(_)
joinPath(segs) ==
    IF segs = <<>> THEN <<>> ELSE <<"/">> \o Head(segs) \o joinPath(Tail(segs))

Op(opName, segs, value) ==
    [op |-> opName, path |-> Str(joinPath(segs)), value |-> value]

ConnectionValue == Obj((K("sourceId") :> Node1) @@ (K("targetId") :> Node2))
StyledValue ==
    Obj((K("sourceId") :> Node2) @@ (K("targetId") :> Node1) @@
        (K("type") :> S1("straight")) @@ (K("color") :> JsNull) @@
        (K("label") :> S1("L")))
NodeValue == Obj((K("id") :> S1("n4")) @@ (K("title") :> S1("N")))
ItemValue ==
    Obj((K("id") :> S1("r")) @@ (K("title") :> S1("R")) @@
        (K("x") :> Num(1)) @@ (K("y") :> Num(2)))
TagsValue == Arr(<<S1("a")>>)

\* replace /<root>/<index>/title 'X'
ReplaceTitle(root, indexSeg) == Op("replace", <<K(root), indexSeg, K("title")>>, S1("X"))

AppendConnection(value) == Op("add", <<K("connections"), <<"-">>>>, value)

\* operations as a JSON response can carry them
PatchOps ==
    { ReplaceTitle("nodes", <<"0">>), ReplaceTitle("nodes", <<"1">>),
      ReplaceTitle("nodes", <<"2">>),
      ReplaceTitle("nodes", <<"9", "9">>),
      ReplaceTitle("nodes", <<"1", "x">>),
      ReplaceTitle("nodes", <<"x">>),
      ReplaceTitle("nodes", <<"-", "1">>),
      ReplaceTitle("edges", <<"0">>),
      [op |-> "replace", path |-> JsUndefined, value |-> S1("X")],
      Op("replace", <<K("nodes"), <<"0">>, K("title")>>, JsUndefined),
      Op("move", <<K("nodes"), <<"0">>, K("title")>>, JsUndefined),
      AppendConnection(ConnectionValue), AppendConnection(StyledValue),
      Op("add", <<K("nodes"), <<"-">>>>, NodeValue),
      Op("add", <<K("nodes"), <<"-">>>>, Num(5)),
      Op("add", <<K("nodes"), <<"1">>>>, NodeValue),
      Op("add", <<K("nodes")>>, NodeValue),
      Op("remove", <<K("nodes"), <<"0">>>>, JsUndefined),
      Op("remove", <<K("connections"), <<"-", "1">>>>, JsUndefined),
      Op("remove", <<K("nodes"), <<"1">>, K("color")>>, JsUndefined),
      Op("replace", <<K("nodes"), <<"0">>>>, ItemValue),
      Op("replace", <<K("connections"), <<"5">>>>, ItemValue),
      Op("replace", <<K("nodes"), <<"0">>, K("tags")>>, TagsValue),
      Op("replace", <<K("nodes"), <<"0">>, K("tags"), <<"2">>>>, S1("X")),
      Op("add", <<K("nodes"), <<"0">>, K("tags"), <<"-">>>>, S1("Y")),
      Op("remove", <<K("nodes"), <<"0">>, K("tags"), <<"0">>>>, JsUndefined),
      Op("add", <<K("nodes"), <<"0">>, K("meta"), <<"a", "~", "1", "b">>>>, JsNull) }

Patches == UNION {[1..n -> PatchOps] : n \in 1..MaxPatchLen}

\* the default map, and a map with a single node
InputGraphs ==
    { [nodes |-> defaultNodes, connections |-> defaultConnections],
      [nodes |-> SubSeq(defaultNodes, 1, 1), connections |-> <<>>] }

\* { nodes, connections } as applyProposedDiff passes it
\* the references to the cells from + 1 .. from + n, as a sequence
RECURSIVE Refs(_, _)
Refs(from, n) == IF n = 0 THEN <<>> ELSE Append(Refs(from, n - 1), Ref(from + n))

InputHeap(g) ==
    [items |-> g.nodes \o g.connections,
     stateNodes |-> Refs(0, Len(g.nodes)),
     stateConnections |-> Refs(Len(g.nodes), Len(g.connections)),
     workingNodes |-> <<>>,
     workingConnections |-> <<>>]

Graph(h, nodesName, connectionsName) ==
    [nodes |-> View(h, nodesName), connections |-> View(h, connectionsName)]

InitPatch ==
    /\ InitSession
    /\ platform = "web"
    /\ coord = CoordIdle
    /\ ui = UiIdle
    /\ pm \in {[pc |-> "call", heap |-> InputHeap(g), patch |-> p, i |-> 0, round |-> 1,
                working |-> [nodes |-> "stateNodes", connections |-> "stateConnections"],
                before |-> g, origin |-> g, first |-> g]
               : g \in InputGraphs, p \in Patches}

patchIdle == sessionIdle /\ UNCHANGED coord

\* let working = { ...state, nodes: [...state.nodes], connections: [...] }
Call ==
    /\ pm.pc = "call"
    /\ pm' = [pm EXCEPT !.pc = "loop", !.i = 1,
                        !.heap.workingNodes = pm.heap.stateNodes,
                        !.heap.workingConnections = pm.heap.stateConnections,
                        !.working = [nodes |-> "workingNodes",
                                     connections |-> "workingConnections"],
                        !.before = Graph(pm.heap, "stateNodes", "stateConnections")]
    /\ patchIdle

\* one pass of the loop body: try { ... } catch { continue }
ApplyOperation ==
    /\ pm.pc = "loop"
    /\ pm.i <= Len(pm.patch)
    /\ LET done == catchContinue(pm.heap,
                                 applyOperation(pm.heap, pm.working, pm.patch[pm.i]))
       IN pm' = [pm EXCEPT !.pc = IF done.escaped THEN "thrown" ELSE "loop",
                           !.heap = done.heap,
                           !.i = @ + 1]
    /\ patchIdle

\* return working
Return ==
    /\ pm.pc = "loop"
    /\ pm.i > Len(pm.patch)
    /\ pm' = [pm EXCEPT !.pc = "done"]
    /\ patchIdle

\* the result of the first call is the state of a second call, same patch
CallAgain ==
    /\ pm.pc = "done"
    /\ pm.round = 1
    /\ pm' = [pm EXCEPT !.pc = "call", !.round = 2, !.i = 0,
                        !.heap.stateNodes = pm.heap[pm.working.nodes],
                        !.heap.stateConnections = pm.heap[pm.working.connections],
                        !.heap.workingNodes = <<>>,
                        !.heap.workingConnections = <<>>,
                        !.working = [nodes |-> "stateNodes",
                                     connections |-> "stateConnections"],
                        !.before = Graph(pm.heap, pm.working.nodes, pm.working.connections),
                        !.first = Graph(pm.heap, pm.working.nodes, pm.working.connections)]
    /\ patchIdle

NextPatch == Call \/ ApplyOperation \/ Return \/ CallAgain

SpecPatch == InitPatch /\ [][NextPatch]_vars

\* the graph the call returns, or is working on
Working == Graph(pm.heap, pm.working.nodes, pm.working.connections)
\* the state the call was given, as it is now
State == Graph(pm.heap, "stateNodes", "stateConnections")

----------------------------------------------------------------------------
(* Claims about the gesture session and the graph store *)

\* q2 is q1 restricted to the elements that satisfy Keep, in the same order
\* and unchanged
IsRestriction(q2, q1, Keep(_)) ==
    LET kept == {i \in 1..Len(q1) : Keep(q1[i])}
        Rank(i) == Cardinality({j \in kept : j <= i})
    IN /\ Len(q2) = Cardinality(kept)
       /\ \A i \in kept : q2[Rank(i)] = q1[i]

DeletePost(N) ==
    LET KeepNode(node) == Get(node, K("id")) # N
        KeepConn(c) == Get(c, K("sourceId")) # N /\ Get(c, K("targetId")) # N
    IN /\ IsRestriction(nodes', nodes, KeepNode)
       /\ IsRestriction(connections', connections, KeepConn)

\* C1: deleting node N (handleNodeDelete, web or mobile) leaves exactly the
\* other nodes, and exactly the connections that have N neither as source nor
\* as target, each unchanged and in the previous order.
C1_DeleteCascades ==
    [][last'.op = "handleNodeDelete" => DeletePost(last'.a)]_vars

\* a node with two kinds of neighbours was deleted: one connection went with
\* it, the other stayed
C1_Witness ==
    /\ last.op = "handleNodeDelete"
    /\ last.a = Node1
    /\ Len(nodes) = 2
    /\ IdsOf(connections) = {Str(<<"conn", "-", "2">>)}

NoDuplicatePairs ==
    \A i, j \in 1..Len(connections) :
        i # j => ~Joins(connections[j], Get(connections[i], K("sourceId")),
                                        Get(connections[i], K("targetId")))

\* the pair a creation attempt is about, read before the handler runs
\* (<<>> when the step attempts no creation)
AttemptedPair ==
    CASE last'.op = "handleConnectionClick" /\ Truthy(connectionSourceNodeId)
            /\ connectionSourceNodeId # last'.a
            -> <<connectionSourceNodeId, last'.a>>
      [] last'.op = "handleConnectionDragEnd" /\ Truthy(connectionDragStartNode)
            /\ Truthy(last'.a) /\ last'.a # Get(connectionDragStartNode, K("id"))
            -> <<Get(connectionDragStartNode, K("id")), last'.a>>
      [] last'.op = "createConnection" -> <<last'.a, last'.b>>
      [] OTHER -> <<>>

AlreadyJoined(pair) ==
    \E i \in 1..Len(connections) : Joins(connections[i], pair[1], pair[2])

\* C2: no two connections ever join the same unordered node pair, and an
\* attempt to connect two nodes that are already connected (in either
\* direction) leaves the number of connections unchanged.
C2_OnePerPair ==
    /\ []NoDuplicatePairs
    /\ [][(AttemptedPair # <<>> /\ AlreadyJoined(AttemptedPair))
            => Len(connections') = Len(connections)]_vars

\* a connection was created by a gesture and the reverse attempt was refused
C2_Witness ==
    /\ last.r = "rejected"
    /\ \E i \in 1..Len(connections) :
          /\ Get(connections[i], K("sourceId")) = last.a
          /\ Get(connections[i], K("targetId")) # NodeCentral
          /\ Get(connections[i], K("sourceId")) # NodeCentral

\* the attempt is rejected: a self-connection, or the pair is already joined
RejectedAttempt ==
    /\ AttemptedPair # <<>>
    /\ \/ AttemptedPair[1] = AttemptedPair[2]
       \/ AlreadyJoined(AttemptedPair)

DeadlineArmed ==
    pendingElapsed >= 0 =>
        /\ Truthy(connectionSourceNodeId)
        /\ pendingElapsed <= CONNECTION_TIMEOUT
        /\ \E t \in timers :
              /\ t.id = connectionTimeoutRef
              /\ t.kind = "connection"
              /\ t.remaining = CONNECTION_TIMEOUT - pendingElapsed

\* C10: a pending state entered at time T, with no node clicked and no
\* cancelling event since, never lasts beyond T + 3000 ms: its timer stays
\* armed for that moment, and when it runs the pending state is cleared
\* (no source, connection mode off) and the graph is unchanged.
C10_PendingTimesOut ==
    /\ []DeadlineArmed
    /\ [][last'.op = "connectionTimeout" =>
            /\ connectionSourceNodeId' = JsNull
            /\ isConnectionMode' = FALSE
            /\ UNCHANGED <<nodes, connections, history>>]_vars

\* the timer of a pending state entered at time 0 ran at time 3000
C10_Witness ==
    /\ last.op = "connectionTimeout"
    /\ now = CONNECTION_TIMEOUT
    /\ ~Truthy(connectionSourceNodeId)
    /\ ~isConnectionMode

----------------------------------------------------------------------------
(* Claims about applyJsonPatch *)

\* the operation the loop is about to process
AtOperation == pm.pc = "loop" /\ pm.i <= Len(pm.patch)
CurrentOp == pm.patch[pm.i]

\* C5: applyJsonPatch never mutates its input: during and after the call the
\* state's nodes array, its connections array and every object in them are
\* what they were when the call was made.
C5_InputUntouched ==
    pm.pc \in {"call", "loop", "done", "thrown"} => State = pm.before

\* a field was removed from one node and another node was removed, and the
\* input still has both
C5_Witness ==
    /\ pm.pc = "done"
    /\ pm.patch = << Op("remove", <<K("nodes"), <<"1">>, K("color")>>, JsUndefined),
                     Op("remove", <<K("nodes"), <<"0">>>>, JsUndefined) >>
    /\ Len(State.nodes) = 3
    /\ Len(Working.nodes) = 2
    /\ K("color") \notin DOMAIN Working.nodes[1].o
    /\ K("color") \in DOMAIN State.nodes[2].o

\* the segments of the operation's path, decoded
SegmentsOf(op) ==
    LET raw == slice1(split(op.path.s))
    IN [i \in 1..Len(raw) |-> decodePointerSegment(raw[i])]

\* the segment is a decimal integer: digits, after an optional minus sign
IsDecimal(seg) ==
    LET digits == IF seg # <<>> /\ Head(seg) = "-" THEN Tail(seg) ELSE seg
    IN digits # <<>> /\ \A i \in 1..Len(digits) : digits[i] \in Digits

\* the operation is one the engine is to ignore: a root other than nodes and
\* connections; an index that is not a number; a negative or out-of-range
\* index for remove, replace or the access to a field; or it throws
Offending(op) ==
    \/ applyOperation(pm.heap, pm.working, op).threw
    \/ /\ op.path.k = "string"
       /\ LET segments == SegmentsOf(op)
          IN \/ segments = <<>>
             \/ segments[1] \notin {K("nodes"), K("connections")}
             \/ /\ Len(segments) >= 2
                /\ segments[2] # <<"-">>
                /\ \/ ~IsDecimal(segments[2])
                   \/ /\ Len(segments) > 2 \/ op.op \in {"remove", "replace"}
                      /\ ~InRange(parseInt(segments[2]).n,
                                  IF segments[1] = K("nodes") THEN Working.nodes
                                  ELSE Working.connections)

\* C6 as stated: applyJsonPatch never throws; an operation with an
\* unsupported root, a non-numeric, negative or out-of-range index, or one
\* that throws internally, leaves the working graph unchanged (so the rest is
\* applied as if it were absent); replace /nodes/99/title on a graph of three
\* nodes returns the input graph.
C6_OffendingIgnored ==
    /\ [](pm.pc # "thrown")
    /\ [][(AtOperation /\ Offending(CurrentOp)) => Working' = Working]_vars
    /\ []((pm.pc = "done" /\ pm.round = 1
           /\ pm.patch = <<ReplaceTitle("nodes", <<"9", "9">>)>>) => Working = pm.origin)

\* the operation with the index segment '1x' was applied to node 1
C6_Witness ==
    /\ pm.pc = "done"
    /\ pm.round = 1
    /\ pm.patch = <<ReplaceTitle("nodes", <<"1", "x">>)>>
    /\ Len(pm.origin.nodes) = 3
    /\ Working.nodes[2].o[K("title")] = S1("X")
    /\ Working # pm.origin

\* the index segment of item i, for a single digit
IndexSeg(i) == <<ToString(i)>>

\* b is a with the title 'X' and nothing else changed
OnlyTitleChanged(a, b) ==
    /\ b.k = "object"
    /\ DOMAIN b.o = DOMAIN a.o \cup {K("title")}
    /\ b.o[K("title")] = S1("X")
    /\ \A key \in DOMAIN a.o \ {K("title")} : b.o[key] = a.o[key]

\* C7: the single operation replace /nodes/i/title 'X', for an index i of
\* the graph, changes the title of node i to 'X' and nothing else: the other
\* fields of that node, the other nodes, the order and the connections stay.
C7_ReplaceTitleOnly ==
    \A i \in 0..(Len(pm.origin.nodes) - 1) :
        (pm.pc = "done" /\ pm.round = 1
         /\ pm.patch = <<ReplaceTitle("nodes", IndexSeg(i))>>)
        => /\ Working.connections = pm.origin.connections
           /\ Len(Working.nodes) = Len(pm.origin.nodes)
           /\ \A j \in 1..Len(pm.origin.nodes) :
                 IF j = i + 1
                 THEN OnlyTitleChanged(pm.origin.nodes[j], Working.nodes[j])
                 ELSE Working.nodes[j] = pm.origin.nodes[j]

\* node 1 of the default map was retitled
C7_Witness ==
    /\ pm.pc = "done"
    /\ pm.round = 1
    /\ pm.patch = <<ReplaceTitle("nodes", <<"1">>)>>
    /\ Len(pm.origin.nodes) = 3
    /\ Working.nodes[2].o[K("title")] = S1("X")
    /\ pm.origin.nodes[2].o[K("title")] # S1("X")

\* the defaults of the styling fields of an appended connection
StylingDefaults ==
    (K("type") :> S1("curved")) @@ (K("width") :> Num(2)) @@
    (K("showArrow") :> JsTrue) @@ (K("arrowPosition") :> S1("end")) @@
    (K("color") :> S1("#6b7280")) @@ (K("relation") :> S1("generico"))

\* c has the fields of value as they are, and the default in every styling
\* field value does not have, and no other field
AppendedFrom(c, value) ==
    /\ c.k = "object"
    /\ DOMAIN c.o = DOMAIN value.o \cup DOMAIN StylingDefaults
    /\ \A key \in DOMAIN value.o : c.o[key] = value.o[key]
    /\ \A key \in DOMAIN StylingDefaults \ DOMAIN value.o : c.o[key] = StylingDefaults[key]

\* C8: every application of add /connections/- with an object value appends
\* one connection at the end, with the fields of the value and the defaults
\* of the styling fields it lacks, and leaves the nodes and the connections
\* before it unchanged; the same patch applied twice appends two.
C8_AppendConnection ==
    /\ [][\A value \in {ConnectionValue, StyledValue} :
            (AtOperation /\ CurrentOp = AppendConnection(value))
            => /\ Working'.nodes = Working.nodes
               /\ Len(Working'.connections) = Len(Working.connections) + 1
               /\ SubSeq(Working'.connections, 1, Len(Working.connections))
                     = Working.connections
               /\ AppendedFrom(Working'.connections[Len(Working.connections) + 1],
                               value)]_vars
    /\ [](\A value \in {ConnectionValue, StyledValue} :
            (pm.pc = "done" /\ pm.round = 2 /\ pm.patch = <<AppendConnection(value)>>)
            => Len(Working.connections) = Len(pm.origin.connections) + 2)

\* the same connection appended by each of two calls, the second with a
\* type of its own and a null color
C8_Witness ==
    /\ pm.pc = "done"
    /\ pm.round = 2
    /\ pm.patch = <<AppendConnection(StyledValue)>>
    /\ Len(pm.origin.connections) = 2
    /\ Len(Working.connections) = 4
    /\ Working.connections[3] = Working.connections[4]
    /\ Working.connections[4].o[K("type")] = S1("straight")
    /\ Working.connections[4].o[K("color")] = JsNull
    /\ Working.connections[4].o[K("width")] = Num(2)

----------------------------------------------------------------------------
(* Web front end at DOM level: the pointer and the MindMapNode components *)

MaxPresses == 3               \* mouse presses in one behaviour
MaxToolClicks == 1            \* clicks on the tool bar in one behaviour
NumPointerNodes == 2          \* nodes the pointer visits: 'node-1', 'node-2', ...
DRAG_DELAY == 150             \* setTimeout(..., isSelected ? 100 : 150), isSelected unset
DOUBLE_CLICK_MS == 400        \* timeDiff < 400 in MindMapNode.handleClick
PAGE_DOUBLE_CLICK_MS == 500   \* timeDiff < 500 in handleBackgroundMouseDown
EPOCH == 1000000              \* Date.now() at mount, far above every click window

DateNow == EPOCH + now

PointerNodes == {<<Node1, Node2, NodeCentral>>[i] : i \in 1..NumPointerNodes}

\* the cursor style the page gives nodes and connections while erasing
eraserCursor == <<"url(\"", "data:image/svg+xml;base64,", "PHN2ZyB3aWR0aD0iMjQi", "\")",
                  " ", "12", " ", "12", ",", " ", "auto">>

\* style?.cursor?.includes('eraser'): the page sets style only while erasing
cursorIncludesEraser ==
    activeTool = "eraser" /\ \E i \in 1..Len(eraserCursor) : eraserCursor[i] = "eraser"

\* useState initial values of one MindMapNode
NewComponent == [isDragging |-> FALSE, isEditing |-> FALSE, editTitle |-> <<>>,
                 clickCount |-> 0, lastClickTime |-> 0, dragTimeoutRef |-> 0]

UiLiveIds == {t.id : t \in ui.timers}

\* handle of a component timer: no live component timer and no ref holds it
FreshUiTimerId ==
    CHOOSE i \in 1..(Cardinality(ui.timers) + Cardinality(DOMAIN ui.comp) + 1) :
        i \notin UiLiveIds /\ \A m \in DOMAIN ui.comp : ui.comp[m].dragTimeoutRef # i

\* props the page computes for node n
isConnectionSource(n) == connectionSourceNodeId = n
isInConnectionMode == isConnectionMode /\ activeTool = "select"

TitleOf(q, n) == Get(q[CHOOSE i \in 1..Len(q) : Get(q[i], K("id")) = n], K("title"))

\* the forced-exit effect of every node, run until no component changes: a
\* node that edits while the page names another node (or none) cancels its
\* edit, and its onEditStateChange(nodeId, false) makes the page name none
editEffects(comp, parent) ==
    IF \E m \in DOMAIN comp : comp[m].isEditing /\ parent # m
    THEN [comp |-> [m \in DOMAIN comp |-> [comp[m] EXCEPT !.isEditing = FALSE]],
          parent |-> JsNull]
    ELSE [comp |-> comp, parent |-> parent]

\* the components after the page set currentEditingNodeId to parent
AfterEffects(parent) == editEffects(ui.comp, parent).comp

\* the document 'mouseup' listeners of the components that are dragging
globalMouseUp(comp) ==
    [m \in DOMAIN comp |-> [comp[m] EXCEPT !.isDragging = FALSE]]

\* unmount of node n: the cleanup clears its drag timer, its state is dropped
\* and what its other timers would set is set on no component
Unmount(n) ==
    [ui EXCEPT !.comp[n] = NewComponent,
               !.timers = {t \in @ : t.node # n}]

\* the DOM event that was dispatched: name, target, Ctrl key, branch taken
DidUi(op, a, b, r) ==
    /\ last' = [op |-> op, a |-> a, b |-> b, r |-> r]
    /\ UNCHANGED <<platform, coord, pm, now>>

Bool(b) == IF b THEN JsTrue ELSE JsFalse

\* the ghost clock of the pending state follows the page: restarted when
\* handleConnectionClick enters the state, stopped when the source changes or
\* a connection drag is running
TrackPending(entered) ==
    pendingElapsed' =
        IF entered THEN 0
        ELSE IF connectionSourceNodeId' # connectionSourceNodeId \/ isConnectionDragging'
             THEN -1 ELSE pendingElapsed

\* the page after mount, or later, once 'node-1' was double-clicked and is
\* being edited: its first click selected it, the second pushed a snapshot
InitPointer ==
    \E editing \in BOOLEAN :
        /\ platform = "web"
        /\ nodes = defaultNodes
        /\ connections = defaultConnections
        /\ history = IF editing THEN <<[nodes |-> JsonCopySeq(defaultNodes),
                                        connections |-> JsonCopySeq(defaultConnections)]>>
                     ELSE <<>>
        /\ currentEditingNodeId = IF editing THEN Node1 ELSE JsNull
        /\ connectionSourceNodeId = JsNull
        /\ isConnectionMode = FALSE
        /\ connectionTimeoutRef = 0
        /\ timers = {}
        /\ selectedConnectionId = JsNull
        /\ selectedNodeId = IF editing THEN Node1 ELSE JsNull
        /\ preventNextSelection = FALSE
        /\ isConnectionDragging = FALSE
        /\ connectionDragStartNode = JsNull
        /\ activeTool = "select"
        /\ now = 0
        /\ last = [op |-> "init", a |-> JsUndefined, b |-> JsUndefined, r |-> ""]
        /\ pendingElapsed = -1
        /\ coord = CoordIdle
        /\ pm = PatchIdle
        /\ ui = [pc |-> "on",
                 comp |-> [m \in IdsOf(defaultNodes) |->
                              IF editing /\ m = Node1
                              THEN [NewComponent EXCEPT
                                       !.isEditing = TRUE,
                                       !.editTitle = TitleOf(defaultNodes, Node1).s]
                              ELSE NewComponent],
                 timers |-> {},
                 button |-> "up",          \* "up" | "down" | "click" (click pending)
                 target |-> JsNull,        \* where the button went down (null: background)
                 del |-> FALSE,            \* the press was in the node's delete area
                 ctrl |-> FALSE,           \* Ctrl was held when the button went down
                 rest |-> FALSE,           \* the press found session and node at rest
                 nodeDragActive |-> FALSE, \* nodeDragActiveRef.current
                 presses |-> 0,
                 toolClicks |-> 0,
                 lastClickTime |-> 0]      \* the page's lastClickTime state

\* the session and the pressed node are at rest: no source chosen, no click
\* to swallow, the node neither edited nor dragged
AtRest(n) ==
    /\ ~Truthy(connectionSourceNodeId)
    /\ ~preventNextSelection
    /\ ~ui.comp[n].isEditing
    /\ ~ui.comp[n].isDragging

Pressed(u, target, del, ctrl, rest) ==
    [u EXCEPT !.button = "down", !.target = target, !.del = del, !.presses = @ + 1,
              !.ctrl = ctrl, !.rest = rest]

\* the branch MindMapNode.handleMouseDown takes
mouseDownBranch(n, ctrl, del) ==
    LET c == ui.comp[n]
    IN IF c.isEditing THEN "editing"
       ELSE IF preventNextSelection THEN "consume"
       ELSE IF cursorIncludesEraser THEN "eraser"
       ELSE IF del THEN "deleteArea"
       ELSE IF c.isDragging THEN "dragging"
       ELSE IF ctrl /\ activeTool = "select" THEN "connectionDragStart"
       ELSE IF isInConnectionMode THEN "connectionMode"
       ELSE "armDrag"

\* the press moves the focus, so the textarea of a node being edited blurs
\* and its onBlur confirms the edit: the branches that return without
\* e.preventDefault()
pressBlurs(branch) == branch \in {"eraser", "deleteArea", "dragging", "connectionMode"}

\* setTimeout(() => { if (clickCount < 2 && !isEditing && !isDragging) ... }, 150):
\* the callback keeps the values of the render in which the button went down
DragTimer(handle, n) ==
    [id |-> handle, remaining |-> DRAG_DELAY, kind |-> "drag", node |-> n,
     clickCount |-> ui.comp[n].clickCount, isEditing |-> ui.comp[n].isEditing,
     isDragging |-> ui.comp[n].isDragging, snap |-> Snapshot]

ClickResetTimer(handle, n) ==
    [id |-> handle, remaining |-> DOUBLE_CLICK_MS, kind |-> "clickReset", node |-> n,
     clickCount |-> 0, isEditing |-> FALSE, isDragging |-> FALSE, snap |-> Snapshot]

\* MindMapNode.handleMouseDown on node n
MouseDownNode(n, ctrl, del) ==
    /\ ui.pc = "on"
    /\ ui.button = "up"
    /\ ui.presses < MaxPresses
    /\ n \in PointerNodes \cap IdsOf(nodes)
    /\ activeTool # "pencil"
    /\ LET branch == mouseDownBranch(n, ctrl, del)
           blurred == [m \in DOMAIN ui.comp |->
                          IF m # n THEN [ui.comp[m] EXCEPT !.isEditing = FALSE]
                          ELSE ui.comp[m]]
           handle == FreshUiTimerId
       IN /\ CASE branch = "consume" ->
                    /\ preventNextSelection' = FALSE
                    /\ NoGraphChange
                    /\ UNCHANGED <<currentEditingNodeId, connectionSourceNodeId,
                                   isConnectionMode, connectionTimeoutRef, timers,
                                   selectedConnectionId, selectedNodeId,
                                   isConnectionDragging, connectionDragStartNode>>
                 [] branch = "connectionDragStart" ->
                    /\ handleConnectionDragStart(n)
                    /\ UNCHANGED <<currentEditingNodeId, selectedConnectionId,
                                   selectedNodeId, preventNextSelection>>
                 [] pressBlurs(branch) ->
                    /\ currentEditingNodeId' =
                          IF \E m \in DOMAIN ui.comp : m # n /\ ui.comp[m].isEditing
                          THEN JsNull ELSE currentEditingNodeId
                    /\ NoGraphChange
                    /\ UNCHANGED <<connectionSourceNodeId, isConnectionMode,
                                   connectionTimeoutRef, timers, selectedConnectionId,
                                   selectedNodeId, preventNextSelection,
                                   isConnectionDragging, connectionDragStartNode>>
                 [] OTHER ->
                    /\ NoGraphChange
                    /\ UNCHANGED sessionVars
          /\ UNCHANGED activeTool
          /\ ui' = Pressed(
                CASE branch = "armDrag" ->
                        [ui EXCEPT !.timers = {t \in @ : t.id # ui.comp[n].dragTimeoutRef}
                                                 \cup {DragTimer(handle, n)},
                                   !.comp[n].dragTimeoutRef = handle]
                  [] pressBlurs(branch) -> [ui EXCEPT !.comp = blurred]
                  [] OTHER -> ui,
                n, del, ctrl, AtRest(n))
          /\ TrackPending(FALSE)
          /\ DidUi("mousedown", n, Bool(ctrl), branch)

\* currentEditingNodeId, the connection mode with its timer, and the selected
\* connection are cleared: both branches of handleBackgroundMouseDown
clearSelections ==
    /\ currentEditingNodeId' =
          IF Truthy(currentEditingNodeId) THEN JsNull ELSE currentEditingNodeId
    /\ IF isConnectionMode
       THEN /\ connectionSourceNodeId' = JsNull
            /\ isConnectionMode' = FALSE
            /\ IF connectionTimeoutRef # 0
               THEN ClearConnectionTimeout
               ELSE UNCHANGED <<timers, connectionTimeoutRef>>
       ELSE UNCHANGED <<connectionSourceNodeId, isConnectionMode, timers,
                        connectionTimeoutRef>>
    /\ selectedConnectionId' =
          IF Truthy(selectedConnectionId) THEN JsNull ELSE selectedConnectionId
    /\ preventNextSelection' = FALSE

\* createNewNode(x, y) for a press at the centre of an unpanned viewport
createNewNode ==
    /\ CanPush
    /\ history' = PushHistory
    /\ nodes' = Append(nodes,
                   Obj((K("id") :> Str(<<ToString(DateNow)>>)) @@
                       (K("title") :> Str(<<"Nuovo", " ", "Nodo">>)) @@
                       (K("x") :> Num(0)) @@ (K("y") :> Num(0))))
    /\ connections' = connections

\* handleBackgroundMouseDown; near: the press is within 10 px of the last one
BackgroundMouseDown(near) ==
    /\ ui.pc = "on"
    /\ ui.button = "up"
    /\ ui.presses < MaxPresses
    /\ activeTool # "pencil"
    /\ LET double == DateNow - ui.lastClickTime < PAGE_DOUBLE_CLICK_MS /\ near
       IN /\ IF double THEN createNewNode ELSE NoGraphChange
          /\ clearSelections
          /\ UNCHANGED <<selectedNodeId, isConnectionDragging, connectionDragStartNode,
                         activeTool>>
          /\ ui' = Pressed([ui EXCEPT !.comp = AfterEffects(JsNull),
                                      !.lastClickTime = IF double THEN 0 ELSE DateNow],
                           JsNull, FALSE, FALSE, FALSE)
          /\ TrackPending(FALSE)
          /\ DidUi("mousedown", JsNull, JsFalse, IF double THEN "double" ELSE "single")

\* the gesture is over: the button is up and nothing is remembered of the press
Up(u) ==
    [u EXCEPT !.button = "up", !.target = JsNull, !.del = FALSE, !.ctrl = FALSE,
              !.rest = FALSE]

\* the release is followed by a click when it is over the element pressed
Released(u, over) ==
    IF over = u.target /\ over # JsNull THEN [u EXCEPT !.button = "click"] ELSE Up(u)

AnyDragging(comp) == \E m \in DOMAIN comp : comp[m].isDragging

\* the document 'mouseup' listener the page installs while a connection is
\* dragged
pageGlobalMouseUp ==
    IF isConnectionDragging
    THEN handleConnectionDragEnd(JsUndefined)
    ELSE /\ NoGraphChange
         /\ UNCHANGED <<isConnectionDragging, connectionDragStartNode,
                        connectionSourceNodeId, isConnectionMode, preventNextSelection>>

\* MindMapNode.handleMouseUp on node n, then the document listeners unless
\* the handler stopped the propagation
MouseUpNode(n) ==
    /\ ui.pc = "on"
    /\ ui.button = "down"
    /\ n \in PointerNodes \cap IdsOf(nodes)
    /\ IF isInConnectionMode /\ ~isConnectionSource(n)
       THEN /\ handleConnectionDragEnd(n)
            /\ ui' = Released(ui, n)
       ELSE /\ pageGlobalMouseUp
            /\ ui' = Released([ui EXCEPT !.comp = globalMouseUp(@),
                                         !.nodeDragActive = FALSE], n)
    /\ UNCHANGED <<currentEditingNodeId, selectedConnectionId, selectedNodeId, timers,
                   connectionTimeoutRef, activeTool>>
    /\ TrackPending(FALSE)
    /\ DidUi("mouseup", n, JsUndefined,
             IF isInConnectionMode /\ ~isConnectionSource(n)
             THEN DragEndOutcome(n)
             ELSE IF isConnectionDragging THEN DragEndOutcome(JsUndefined) ELSE "")

\* MindMapPage.handleMouseUp on the background, then the document listeners
MouseUpBackground ==
    /\ ui.pc = "on"
    /\ ui.button = "down"
    /\ pageGlobalMouseUp
    /\ ui' = Released([ui EXCEPT !.comp = globalMouseUp(@),
                                 !.nodeDragActive = @ /\ ~AnyDragging(ui.comp)],
                      JsNull)
    /\ UNCHANGED <<currentEditingNodeId, selectedConnectionId, selectedNodeId, timers,
                   connectionTimeoutRef, activeTool>>
    /\ TrackPending(FALSE)
    /\ DidUi("mouseup", JsNull, JsUndefined,
             IF isConnectionDragging THEN DragEndOutcome(JsUndefined) ELSE "")

\* variant: the double-click test comes before the test of isDragging
clickBranch_DoubleClickFirst(n, ctrl, del) ==
    LET c == ui.comp[n]
    IN IF c.isEditing THEN "editing"
       ELSE IF preventNextSelection THEN "consume"
       ELSE IF cursorIncludesEraser THEN "eraser"
       ELSE IF del THEN "deleteArea"
       ELSE IF DateNow - c.lastClickTime < DOUBLE_CLICK_MS /\ c.clickCount = 1
            THEN "doubleClick"
       ELSE IF c.isDragging THEN "stopDragging"
       ELSE IF ctrl \/ (isInConnectionMode /\ ~isConnectionSource(n))
            THEN "connectionClick"
       ELSE "select"

\* the branch MindMapNode.handleClick takes
clickBranch(n, ctrl, del) ==
    LET c == ui.comp[n]
    IN IF c.isEditing THEN "editing"
       ELSE IF preventNextSelection THEN "consume"
       ELSE IF cursorIncludesEraser THEN "eraser"
       ELSE IF del THEN "deleteArea"
       ELSE IF c.isDragging THEN "stopDragging"
       ELSE IF DateNow - c.lastClickTime < DOUBLE_CLICK_MS /\ c.clickCount = 1
            THEN "doubleClick"
       ELSE IF ctrl \/ (isInConnectionMode /\ ~isConnectionSource(n))
            THEN "connectionClick"
       ELSE "select"

\* what the click that reaches onConnectionClick does
connectionClickOutcome(n) ==
    IF activeTool = "eraser" THEN "deleted"
    ELSE IF ~Truthy(connectionSourceNodeId) THEN "entered"
    ELSE IF connectionSourceNodeId = n THEN "cancelled"
    ELSE IF createConnectionAccepts(connectionSourceNodeId, n) THEN "committed"
    ELSE "rejected"

\* MindMapNode.handleClick on node n
Click(n, ctrl) ==
    /\ ui.pc = "on"
    /\ ui.button = "click"
    /\ ui.target = n
    /\ LET branch == clickBranch(n, ctrl, ui.del)
           c == ui.comp[n]
           up == Up(ui)
           deletes == branch \in {"eraser", "deleteArea"}
                         \/ (branch = "connectionClick" /\ activeTool = "eraser")
           handle == FreshUiTimerId
           edit == editEffects([ui.comp EXCEPT ![n].isEditing = TRUE,
                                               ![n].editTitle = TitleOf(nodes, n).s,
                                               ![n].clickCount = 0,
                                               ![n].lastClickTime = 0,
                                               ![n].dragTimeoutRef = 0], n)
       IN /\ CASE branch = "consume" ->
                    /\ preventNextSelection' = FALSE
                    /\ NoGraphChange
                    /\ UNCHANGED <<currentEditingNodeId, connectionSourceNodeId,
                                   isConnectionMode, connectionTimeoutRef, timers,
                                   selectedConnectionId, selectedNodeId,
                                   isConnectionDragging, connectionDragStartNode>>
                 [] deletes ->
                    /\ handleNodeDelete(n)
                    /\ UNCHANGED <<selectedConnectionId, selectedNodeId,
                                   preventNextSelection, isConnectionDragging,
                                   connectionDragStartNode>>
                 [] branch = "doubleClick" ->
                    /\ CanPush
                    /\ history' = PushHistory
                    /\ UNCHANGED <<nodes, connections>>
                    /\ currentEditingNodeId' = edit.parent
                    /\ UNCHANGED <<connectionSourceNodeId, isConnectionMode,
                                   connectionTimeoutRef, timers, selectedConnectionId,
                                   selectedNodeId, preventNextSelection,
                                   isConnectionDragging, connectionDragStartNode>>
                 [] branch = "connectionClick" /\ activeTool # "eraser" ->
                    /\ handleConnectionClick(n, ctrl)
                    /\ UNCHANGED <<currentEditingNodeId, selectedConnectionId,
                                   selectedNodeId, isConnectionDragging,
                                   connectionDragStartNode>>
                 [] branch = "select" ->
                    /\ handleNodeSelect(n)
                    /\ NoGraphChange
                    /\ UNCHANGED <<currentEditingNodeId, connectionSourceNodeId,
                                   isConnectionMode, connectionTimeoutRef, timers,
                                   selectedConnectionId, isConnectionDragging,
                                   connectionDragStartNode>>
                 [] OTHER ->
                    /\ NoGraphChange
                    /\ UNCHANGED sessionVars
          /\ UNCHANGED activeTool
          /\ ui' =
                CASE deletes ->
                        [up EXCEPT !.comp[n] = NewComponent,
                                   !.timers = {t \in @ : t.node # n}]
                  [] branch = "stopDragging" ->
                        [up EXCEPT !.comp[n].isDragging = FALSE,
                                   !.comp[n].dragTimeoutRef = 0,
                                   !.timers = {t \in @ : t.id # c.dragTimeoutRef},
                                   !.nodeDragActive = FALSE]
                  [] branch = "doubleClick" ->
                        [up EXCEPT !.comp = edit.comp,
                                   !.timers = {t \in @ : t.id # c.dragTimeoutRef}]
                  [] branch = "select" ->
                        [up EXCEPT !.comp[n].clickCount = 1,
                                   !.comp[n].lastClickTime = DateNow,
                                   !.timers = @ \cup {ClickResetTimer(handle, n)}]
                  [] OTHER -> up
          /\ TrackPending(branch = "connectionClick" /\ activeTool # "eraser"
                             /\ ~Truthy(connectionSourceNodeId))
          /\ DidUi("click", n, Bool(ctrl),
                   IF branch = "connectionClick" THEN connectionClickOutcome(n)
                   ELSE branch)

\* The browser dispatches mouseup and click of one gesture back to back: no
\* timer callback and no key event runs between them.

\* the callback of the press-to-drag timer; onDragStateChange(true) is the
\* page's handleNodeDragStateChange of the render in which the button went down
DragTimeout ==
    /\ ui.pc = "on"
    /\ ui.button # "click"
    /\ \E t \in ui.timers :
          /\ t.remaining = 0
          /\ t.kind = "drag"
          /\ LET starts == t.clickCount < 2 /\ ~t.isEditing /\ ~t.isDragging
                 pushes == starts /\ ~ui.nodeDragActive
             IN /\ pushes => CanPush
                /\ history' =
                      IF pushes
                      THEN Append(history, [nodes |-> JsonCopySeq(t.snap.nodes),
                                            connections |-> JsonCopySeq(t.snap.connections)])
                      ELSE history
                /\ ui' = [ui EXCEPT !.timers = @ \ {t},
                                    !.comp[t.node].isDragging = @ \/ starts,
                                    !.comp[t.node].dragTimeoutRef = 0,
                                    !.nodeDragActive = @ \/ starts]
                /\ DidUi("dragTimeout", t.node, JsUndefined,
                         IF starts THEN "dragging" ELSE "")
    /\ UNCHANGED <<nodes, connections>>
    /\ UNCHANGED sessionVars
    /\ TrackPending(FALSE)

\* setTimeout(() => setClickCount(0), 400)
ClickResetTimeout ==
    /\ ui.pc = "on"
    /\ ui.button # "click"
    /\ \E t \in ui.timers :
          /\ t.remaining = 0
          /\ t.kind = "clickReset"
          /\ ui' = [ui EXCEPT !.timers = @ \ {t}, !.comp[t.node].clickCount = 0]
          /\ DidUi("clickResetTimeout", t.node, JsUndefined, "")
    /\ NoGraphChange
    /\ UNCHANGED sessionVars
    /\ TrackPending(FALSE)

\* the 3000 ms timer of the pending state
PendingTimeout ==
    /\ ui.pc = "on"
    /\ ui.button # "click"
    /\ \E t \in timers :
          /\ t.remaining = 0
          /\ t.kind = "connection"
          /\ connectionTimeoutCallback(t)
    /\ UNCHANGED <<currentEditingNodeId, selectedConnectionId, selectedNodeId,
                   isConnectionDragging, connectionDragStartNode, activeTool, ui>>
    /\ TrackPending(FALSE)
    /\ DidUi("connectionTimeout", JsUndefined, JsUndefined, "")

\* a click on a tool of the ToolBar: handleToolChange, the forced-exit
\* effects, and the document listeners on the release
ToolClick(tool) ==
    /\ ui.pc = "on"
    /\ ui.button = "up"
    /\ ui.toolClicks < MaxToolClicks
    /\ handleToolChange(tool)
    /\ NoGraphChange
    /\ UNCHANGED <<selectedNodeId, isConnectionDragging, connectionDragStartNode>>
    /\ ui' = [ui EXCEPT !.comp = globalMouseUp(AfterEffects(JsNull)),
                        !.nodeDragActive = @ /\ ~AnyDragging(ui.comp),
                        !.toolClicks = @ + 1]
    /\ TrackPending(FALSE)
    /\ DidUi("toolClick", S1(tool), JsUndefined, "")

\* a click on a connection: CurvedConnection.handleClick calls onSelect, which
\* the page binds to handleEraserClick while erasing
ConnectionTap(connectionId) ==
    /\ ui.pc = "on"
    /\ ui.button = "up"
    /\ ui.presses < MaxPresses
    /\ activeTool # "pencil"
    /\ connectionId \in IdsOf(connections)
    /\ IF activeTool = "eraser"
       THEN /\ handleConnectionDelete(connectionId)
       ELSE /\ handleConnectionSelect(connectionId)
            /\ NoGraphChange
    /\ UNCHANGED <<currentEditingNodeId, connectionSourceNodeId, isConnectionMode,
                   connectionTimeoutRef, timers, selectedNodeId, preventNextSelection,
                   isConnectionDragging, connectionDragStartNode, activeTool>>
    /\ ui' = [ui EXCEPT !.comp = globalMouseUp(@),
                        !.nodeDragActive = @ /\ ~AnyDragging(ui.comp),
                        !.presses = @ + 1]
    /\ TrackPending(FALSE)
    /\ DidUi("connectionTap", connectionId, JsUndefined,
             IF activeTool = "eraser" THEN "deleted" ELSE "selected")

\* Escape in the textarea of node n: handleEditCancel
EscapeKey(n) ==
    /\ ui.pc = "on"
    /\ ui.button # "click"
    /\ n \in DOMAIN ui.comp
    /\ ui.comp[n].isEditing
    /\ currentEditingNodeId' = JsNull
    /\ ui' = [ui EXCEPT !.comp = [editEffects(
                                     [ui.comp EXCEPT ![n].isEditing = FALSE], JsNull).comp
                                  EXCEPT ![n].editTitle = TitleOf(nodes, n).s]]
    /\ NoGraphChange
    /\ UNCHANGED <<connectionSourceNodeId, isConnectionMode, connectionTimeoutRef, timers,
                   selectedConnectionId, selectedNodeId, preventNextSelection,
                   isConnectionDragging, connectionDragStartNode, activeTool>>
    /\ TrackPending(FALSE)
    /\ DidUi("escape", n, JsUndefined, "")

\* time passes while a timer is live or the page's double-click window is
\* open, but never beyond the moment a live timer is due
PointerTick ==
    /\ ui.pc = "on"
    /\ ui.button # "click"
    /\ \/ timers \cup ui.timers # {}
       \/ DateNow - ui.lastClickTime < PAGE_DOUBLE_CLICK_MS
    /\ LET d == MinRemaining(timers \cup ui.timers, Min(TickMs, MaxNow - now))
       IN /\ d > 0
          /\ now' = now + d
          /\ timers' = {[t EXCEPT !.remaining = @ - d] : t \in timers}
          /\ ui' = [ui EXCEPT !.timers = {[t EXCEPT !.remaining = @ - d] : t \in @}]
          /\ pendingElapsed' = IF pendingElapsed >= 0 THEN pendingElapsed + d ELSE -1
    /\ NoGraphChange
    /\ UNCHANGED <<currentEditingNodeId, connectionSourceNodeId, isConnectionMode,
                   connectionTimeoutRef, selectedConnectionId, selectedNodeId,
                   preventNextSelection, isConnectionDragging, connectionDragStartNode,
                   activeTool>>
    /\ last' = [op |-> "tick", a |-> JsUndefined, b |-> JsUndefined, r |-> ""]
    /\ UNCHANGED <<platform, coord, pm>>

NextPointer ==
    \/ \E n \in PointerNodes, ctrl \in BOOLEAN, del \in BOOLEAN : MouseDownNode(n, ctrl, del)
    \/ \E near \in BOOLEAN : BackgroundMouseDown(near)
    \/ \E n \in PointerNodes : MouseUpNode(n)
    \/ MouseUpBackground
    \/ \E n \in PointerNodes, ctrl \in BOOLEAN : Click(n, ctrl)
    \/ DragTimeout
    \/ ClickResetTimeout
    \/ PendingTimeout
    \/ \E tool \in WebTools : ToolClick(tool)
    \/ \E connectionId \in IdsOf(connections) : ConnectionTap(connectionId)
    \/ \E n \in PointerNodes : EscapeKey(n)
    \/ PointerTick

SpecPointer == InitPointer /\ [][NextPointer]_vars

----------------------------------------------------------------------------
(* Claims about the pointer gestures *)

Dragging(u) == {m \in DOMAIN u.comp : u.comp[m].isDragging}
Editing(u) == {m \in DOMAIN u.comp : u.comp[m].isEditing}
DragTimers(u) == {t \in u.timers : t.kind = "drag"}

\* C11: the press-to-drag timer is cancelled when the pointer is released or
\* the click completes before the delay, or else fires as a no-op: a node
\* starts being dragged only while the button is down.
C11_NoDragStartWhilePointerUp ==
    [][ui.pc = "on" =>
          \A m \in DOMAIN ui.comp :
              (~ui.comp[m].isDragging /\ ui'.comp[m].isDragging) => ui.button = "down"]_vars

\* a quick press, release and click on a node, and 150 ms later the node is
\* being dragged with the button up
C11_Witness ==
    /\ ui.pc = "on"
    /\ last.op = "dragTimeout"
    /\ last.r = "dragging"
    /\ ui.button = "up"
    /\ ui.presses = 1
    /\ ui.comp[last.a].isDragging

PendingTimers == {t \in timers : t.kind = "connection"}

\* the session waits for the second click on a source chosen by a click
Pending == Truthy(connectionSourceNodeId) /\ pendingElapsed >= 0

\* C12: whenever the pending state is left by a competing event (a click on a
\* second node or on the source, a press on the background, a tool switch, the
\* deletion of the source, the start of a connection drag) its 3000 ms timer is
\* cancelled: every live pending timer is the ref's timer of the pending state
\* that is current, due at that state's deadline, so the callback runs only at
\* the deadline of the state it was armed for.
C12_CompetitorCancelsTimer ==
    /\ [](ui.pc = "on" =>
             \A t \in PendingTimers :
                 /\ Pending
                 /\ t.id = connectionTimeoutRef
                 /\ t.remaining = CONNECTION_TIMEOUT - pendingElapsed)
    /\ [][(Pending /\ ~Pending') => PendingTimers' = {}]_vars
    /\ [][last'.op = "connectionTimeout" =>
             (Pending /\ pendingElapsed = CONNECTION_TIMEOUT)]_vars

\* the click on a second node left the pending state before its deadline and
\* no pending timer is left
C12_Witness ==
    /\ ui.pc = "on"
    /\ last.op = "click"
    /\ last.r = "committed"
    /\ now < CONNECTION_TIMEOUT
    /\ preventNextSelection
    /\ ~Pending
    /\ PendingTimers = {}

\* the step is a click in which handleClick detected a double click
DoubleClickStep == last'.op = "click" /\ last'.r = "doubleClick"

\* node n has no press-to-drag timer armed and is not being dragged
NoDragArmed(u, n) ==
    /\ ~u.comp[n].isDragging
    /\ u.comp[n].dragTimeoutRef = 0
    /\ \A t \in DragTimers(u) : t.node # n

\* C13: a detected double click always wins over the press-to-drag timer: the
\* node ends being edited, with no drag timer armed for it and not dragged,
\* and no drag timer of the node is live (so none fires) while it is edited.
C13_DoubleClickWins ==
    /\ [][DoubleClickStep => (ui'.comp[last'.a].isEditing /\ NoDragArmed(ui', last'.a))]_vars
    /\ [](ui.pc = "on" => \A n \in Editing(ui) : NoDragArmed(ui, n))

\* the part that holds: after a detected double click the node has no drag
\* timer and is not dragged, and no node that is edited has one
C13_NoDragAfterDoubleClick ==
    /\ [][DoubleClickStep => NoDragArmed(ui', last'.a)]_vars
    /\ [](ui.pc = "on" => \A n \in Editing(ui) : NoDragArmed(ui, n))

\* 'node-1' is being edited; a double click on 'node-2' is detected and
\* leaves no node being edited
C13_Witness ==
    /\ ui.pc = "on"
    /\ last.op = "click"
    /\ last.r = "doubleClick"
    /\ last.a = Node2
    /\ Editing(ui) = {}
    /\ currentEditingNodeId = JsNull
    /\ Len(history) = 2

\* the step is a click on node n, outside its delete area, while n is not
\* being edited and the session is pending
ClickWhilePending(n) ==
    /\ Pending
    /\ ui.button = "click"
    /\ ui.target = n
    /\ ~ui.del
    /\ ~ui.comp[n].isEditing
    /\ last'.op = "click"

\* exactly one connection, from a to b, was appended
AddedOne(a, b) ==
    /\ Len(connections') = Len(connections) + 1
    /\ SubSeq(connections', 1, Len(connections)) = connections
    /\ Get(connections'[Len(connections')], K("sourceId")) = a
    /\ Get(connections'[Len(connections')], K("targetId")) = b

PendingCleared == ~Truthy(connectionSourceNodeId') /\ ~isConnectionMode' /\ PendingTimers' = {}

\* C14: while pending on A, a click on a different node B with no connection
\* between A and B adds exactly one connection A -> B, clears the pending
\* state and its timer and sets the suppress-next-selection flag; a click on
\* A itself adds no connection, clears the pending state and its timer, and
\* leaves the flag false.
C14_SecondClick ==
    [][\A n \in PointerNodes :
          ClickWhilePending(n) =>
             IF n = connectionSourceNodeId
             THEN connections' = connections /\ PendingCleared /\ ~preventNextSelection'
             ELSE ~connectionExists(connections, connectionSourceNodeId, n) =>
                     (/\ AddedOne(connectionSourceNodeId, n)
                      /\ PendingCleared
                      /\ preventNextSelection')]_vars

\* pending on a node, a click on that node without Ctrl: the node is selected
\* and the session still waits for the second click
C14_Witness ==
    /\ ui.pc = "on"
    /\ last.op = "click"
    /\ last.r = "select"
    /\ last.a = connectionSourceNodeId
    /\ Pending
    /\ PendingTimers # {}
    /\ selectedNodeId = connectionSourceNodeId

\* the step is the click that ends a modifier-press on node n: pressed with
\* Ctrl outside the delete area in the select tool, session and node at rest,
\* released on n, clicked with Ctrl still held
ModifierPressClick(n) ==
    /\ ui.button = "click"
    /\ ui.target = n
    /\ ui.ctrl
    /\ ui.rest
    /\ ~ui.del
    /\ activeTool = "select"
    /\ last'.op = "click"
    /\ last'.b = JsTrue

\* C15: in the select tool with no source chosen, a modifier-press on a node
\* (press, release and click with Ctrl held, no movement) leaves the session
\* pending with that node as source and its timer due 3000 ms later.
C15_ModifierPressEntersPending ==
    [][\A n \in PointerNodes :
          ModifierPressClick(n) =>
             /\ connectionSourceNodeId' = n
             /\ isConnectionMode'
             /\ PendingTimers' = {[id |-> connectionTimeoutRef',
                                   remaining |-> CONNECTION_TIMEOUT,
                                   kind |-> "connection"]}]_vars

\* after the modifier-press no source is chosen and the click was swallowed
C15_Witness ==
    /\ ui.pc = "on"
    /\ last.op = "click"
    /\ last.b = JsTrue
    /\ last.r = "consume"
    /\ ui.presses = 1
    /\ ~Truthy(connectionSourceNodeId)
    /\ ~isConnectionMode
    /\ timers = {}
    /\ connections = defaultConnections

\* the node the connection drag started from
DragStartId == Get(connectionDragStartNode, K("id"))

\* the step releases the button while a connection is dragged
DragRelease == isConnectionDragging /\ last'.op = "mouseup"

\* C16: the drag variant commits and cancels as the two-click variant does: a
\* drag released on a different node B with no connection between A and B
\* adds exactly one connection A -> B; released over no node or over A it
\* adds none; afterwards no source is chosen and no connection is dragged;
\* after a cancel the suppress flag is false, as after a two-click cancel.
C16_DragCommitsAndCancels ==
    [][DragRelease =>
          /\ IF last'.a = JsNull \/ last'.a = DragStartId
             THEN connections' = connections /\ ~preventNextSelection'
             ELSE ~connectionExists(connections, DragStartId, last'.a) =>
                     AddedOne(DragStartId, last'.a)
          /\ ~Truthy(connectionSourceNodeId')
          /\ ~isConnectionDragging']_vars

\* the part that holds: the graph effects and the end of the drag
C16_DragGraphEffects ==
    [][DragRelease =>
          /\ IF last'.a = JsNull \/ last'.a = DragStartId
             THEN connections' = connections
             ELSE ~connectionExists(connections, DragStartId, last'.a) =>
                     AddedOne(DragStartId, last'.a)
          /\ ~Truthy(connectionSourceNodeId')
          /\ ~isConnectionDragging'
          /\ preventNextSelection']_vars

\* a connection drag was released over the background: nothing was added and
\* the suppress flag is set
C16_Witness ==
    /\ ui.pc = "on"
    /\ last.op = "mouseup"
    /\ last.a = JsNull
    /\ last.r = "cancelled"
    /\ preventNextSelection
    /\ ~Truthy(connectionSourceNodeId)
    /\ ~isConnectionDragging
    /\ connections = defaultConnections

\* C17: after any tool switch the editing node id is null, there is no
\* connection source and no pending state (its timer is cancelled), and no
\* connection and no node is selected.
C17_ToolSwitchClears ==
    [][last'.op = "toolClick" =>
          /\ ~Truthy(currentEditingNodeId')
          /\ Editing(ui') = {}
          /\ ~Truthy(connectionSourceNodeId')
          /\ ~isConnectionMode'
          /\ PendingTimers' = {}
          /\ ~Truthy(selectedConnectionId')
          /\ ~Truthy(selectedNodeId')]_vars

\* the part that holds: everything but the selected node is cleared
C17_ToolSwitchClearsButNode ==
    [][last'.op = "toolClick" =>
          /\ ~Truthy(currentEditingNodeId')
          /\ Editing(ui') = {}
          /\ ~Truthy(connectionSourceNodeId')
          /\ ~isConnectionMode'
          /\ PendingTimers' = {}
          /\ ~Truthy(selectedConnectionId')
          /\ ~preventNextSelection'
          /\ selectedNodeId' = selectedNodeId]_vars

\* 'node-1' was selected by a click and is still selected after the switch
\* to the eraser
C17_Witness ==
    /\ ui.pc = "on"
    /\ last.op = "toolClick"
    /\ activeTool = "eraser"
    /\ selectedNodeId = Node1

\* the step is the click of a plain tap on node n with the eraser: pressed
\* and clicked without Ctrl, outside the delete area, session and node at rest
EraserTap(n) ==
    /\ activeTool = "eraser"
    /\ ui.button = "click"
    /\ ui.target = n
    /\ ui.rest
    /\ ~ui.ctrl
    /\ ~ui.del
    /\ last'.op = "click"
    /\ last'.b = JsFalse

\* C18: while the eraser is active a plain tap on a node deletes the node with
\* its connections and a tap on a connection deletes the connection; the tap
\* neither selects the element nor arms a drag.
C18_EraserTapDeletes ==
    /\ [][\A n \in PointerNodes :
             EraserTap(n) =>
                /\ nodes' = RemoveNode(nodes, n)
                /\ connections' = RemoveNodeConnections(connections, n)
                /\ selectedNodeId' = selectedNodeId
                /\ \A t \in DragTimers(ui') : t.node # n]_vars
    /\ [][(activeTool = "eraser" /\ last'.op = "mousedown") => last'.r # "armDrag"]_vars
    /\ [][(activeTool = "eraser" /\ last'.op = "connectionTap") =>
             /\ connections' = RemoveConnection(connections, last'.a)
             /\ selectedConnectionId' # last'.a]_vars

\* the part that holds: with the eraser a tap on a connection deletes it, and
\* a click in the delete area of a node deletes the node with its connections
C18_EraserDeletes ==
    /\ [][(activeTool = "eraser" /\ last'.op = "connectionTap") =>
             /\ connections' = RemoveConnection(connections, last'.a)
             /\ nodes' = nodes
             /\ selectedConnectionId' # last'.a]_vars
    /\ [][(activeTool = "eraser" /\ last'.op = "click" /\ ui.rest /\ ui.del) =>
             /\ nodes' = RemoveNode(nodes, last'.a)
             /\ connections' = RemoveNodeConnections(connections, last'.a)]_vars

\* with the eraser, after a plain tap on a node: the node is still there, it
\* is the selected node, and its press-to-drag timer is running
C18_Witness ==
    /\ ui.pc = "on"
    /\ activeTool = "eraser"
    /\ last.op = "click"
    /\ last.b = JsFalse
    /\ last.r = "select"
    /\ last.a \in IdsOf(nodes)
    /\ selectedNodeId = last.a
    /\ \E t \in DragTimers(ui) : t.node = last.a

----------------------------------------------------------------------------
(* Editing a node title: MindMapNode of both front ends and its page *)

MaxEditLen == 2               \* longest text typed, in tokens
MaxEdits == 2                 \* times the node enters the editing state

\* the node whose title is edited
EditNode == Node1

\* what the user can type: ' ' is white space, 'X' is not
EditAlphabet == {" ", "X"}

IsWhiteSpace(tok) == tok = " "

\* String.prototype.trim(): leading and trailing white space is removed
RECURSIVE trimStart(_)
trimStart(text) ==
    IF text # <<>> /\ IsWhiteSpace(Head(text)) THEN trimStart(Tail(text)) ELSE text

RECURSIVE trimEnd(_)
trimEnd(text) ==
    IF text # <<>> /\ IsWhiteSpace(text[Len(text)])
    THEN trimEnd(SubSeq(text, 1, Len(text) - 1))
    ELSE text

trim_StartOnly(text) == trimStart(text)
trim(text) == trimEnd(trimStart(text))

RECURSIVE Texts(_)
Texts(len) ==
    IF len = 0 THEN {<<>>}
    ELSE Texts(len - 1) \cup
         {Append(t, c) : t \in {x \in Texts(len - 1) : Len(x) = len - 1}, c \in EditAlphabet}

\* the values of the text field: every short text, and the title of the
\* default map as it is and between blanks
EditTexts ==
    Texts(MaxEditLen) \cup
    {TitleOf(defaultNodes, EditNode).s,
     <<" ">> \o TitleOf(defaultNodes, EditNode).s \o <<" ">>}

RECURSIVE CharLength(_)
CharLength(text) == IF text = <<>> THEN 0 ELSE Len(Head(text)) + CharLength(Tail(text))

\* trimmedText.split(/\s+/) and the longest of the words: the longest run of
\* characters without white space, run being the length of the run that ends
\* where text starts
RECURSIVE longestWordFrom(_, _)
longestWordFrom(text, run) ==
    IF text = <<>> THEN run
    ELSE IF IsWhiteSpace(Head(text))
         THEN Max(run, longestWordFrom(Tail(text), 0))
         ELSE longestWordFrom(Tail(text), run + Len(Head(text)))

longestWord(trimmedText) == longestWordFrom(trimmedText, 0)

\* Math.ceil(a / b) for integers a >= 0, b > 0
CeilDiv(a, b) == (a + b - 1) \div b

\* a number of tenths of a pixel as a number of pixels
TenthsOfPx(tenths) == IF tenths % 10 = 0 THEN Num(tenths \div 10) ELSE Tenths(tenths)

\* the branch of calculateNodeSize for more than 50 characters (mobile);
\* the widths are computed in tenths of a pixel (7.5 and 3.5 per character)
dynamicNodeSize(trimmedText) ==
    LET textLength == CharLength(trimmedText)
        estimatedLines == CeilDiv(textLength, 16)
        actualLines == Min(estimatedLines, 5)
        estimatedWidth == Max(1200 + longestWord(trimmedText) * 75, 1200 + textLength * 35)
        estimatedHeight == 65 + (actualLines - 1) * 22 + 12
    IN (K("width") :> TenthsOfPx(Min(2500, Max(1200, estimatedWidth))))
       @@ (K("height") :> Num(Min(150, Max(65, estimatedHeight))))

\* calculateNodeSize(text) of the mobile, the cache apart
calculateNodeSize(text) ==
    LET textLength == CharLength(trim(text))
    IN CASE textLength <= 15 -> (K("width") :> Num(120)) @@ (K("height") :> Num(65))
         [] textLength <= 20 -> (K("width") :> Num(160)) @@ (K("height") :> Num(75))
         [] textLength <= 30 -> (K("width") :> Num(180)) @@ (K("height") :> Num(85))
         [] textLength <= 50 -> (K("width") :> Num(200)) @@ (K("height") :> Num(95))
         [] OTHER -> dynamicNodeSize(trim(text))

\* prevNodes.map(node => node.id === nodeId ? {...node, ...fields} : node)
MapNode(q, nodeId, fields) ==
    [i \in 1..Len(q) |->
        IF Get(q[i], K("id")) = nodeId THEN Obj(fields @@ q[i].o) ELSE q[i]]

\* handleTitleChange of the page (web) and of useNodeOperations (mobile)
handleTitleChange(q, nodeId, newTitle) ==
    IF platform = "web"
    THEN MapNode(q, nodeId, K("title") :> Str(newTitle))
    ELSE IF newTitle = <<>> \/ trim(newTitle) = <<>>
         THEN q
         ELSE MapNode(q, nodeId,
                      (K("title") :> Str(trim(newTitle))) @@ calculateNodeSize(trim(newTitle)))

\* handleEditConfirm of a node showing title while its field holds editTitle:
\* the nodes of the page afterwards
handleEditConfirm(q, nodeId, editTitle) ==
    LET trimmedTitle == trim(editTitle)
    IN IF trimmedTitle # <<>> /\ Str(trimmedTitle) # TitleOf(q, nodeId)
       THEN handleTitleChange(q, nodeId, trimmedTitle)
       ELSE q

\* handleEditCancel: the title is not touched
handleEditCancel(q, nodeId, editTitle) == q

\* the component after it left the editing state: isEditing is false, the
\* observer was called with (nodeId, false), and the title-sync effect made
\* the field show the title again
Left(u, q) ==
    [u EXCEPT !.isEditing = FALSE,
              !.editTitle = TitleOf(q, EditNode).s,
              !.observer = <<FALSE>>]

\* a step in which the component does not run: no call of the observer
Idle(u) == [u EXCEPT !.observer = <<>>]

\* the event that was handled: name, node, text in the field when it came
DidEdit(op) ==
    /\ last' = [op |-> op, a |-> EditNode, b |-> Str(ui.editTitle), r |-> ""]
    /\ UNCHANGED <<platform, coord, pm, now, pendingElapsed>>

\* both front ends showing the default map. The mobile component names
\* handleEditConfirm in the dependency list of its forced-exit effect above
\* the const that declares it: a build that lowers const to var renders it, a
\* build that keeps the temporal dead zone throws on every render and no node
\* is ever shown.
InitEdit ==
    \E rendered \in BOOLEAN :
        /\ platform \in {"web", "mobile"}
        /\ platform = "web" => rendered
        /\ nodes = defaultNodes
        /\ connections = defaultConnections
        /\ history = <<>>
        /\ currentEditingNodeId = JsNull
        /\ connectionSourceNodeId = JsNull
        /\ isConnectionMode = FALSE
        /\ connectionTimeoutRef = 0
        /\ timers = {}
        /\ selectedConnectionId = JsNull
        /\ selectedNodeId = JsNull
        /\ preventNextSelection = FALSE
        /\ isConnectionDragging = FALSE
        /\ connectionDragStartNode = JsNull
        /\ activeTool = "select"
        /\ now = 0
        /\ last = [op |-> "init", a |-> JsUndefined, b |-> JsUndefined, r |-> ""]
        /\ pendingElapsed = -1
        /\ coord = CoordIdle
        /\ pm = PatchIdle
        /\ ui = [pc |-> "edit",
                 rendered |-> rendered,
                 isEditing |-> FALSE,
                 editTitle |-> TitleOf(defaultNodes, EditNode).s,
                 observer |-> <<>>,        \* onEditStateChange calls of the last step
                 edits |-> 0,
                 lastClickTime |-> 0]      \* the page's lastClickTime state

EditLive == ui.pc = "edit" /\ ui.rendered

\* the double click (web) or double tap (mobile) on the node: setIsEditing(true),
\* setEditTitle(title), onEditStateChange(nodeId, true). On the web the first
\* click of the pair selected the node.
StartEditing ==
    /\ EditLive
    /\ ~ui.isEditing
    /\ ui.edits < MaxEdits
    /\ activeTool = "select" \/ platform = "mobile"
    /\ IF platform = "web"
       THEN /\ history' = PushHistory
            /\ selectedNodeId' = EditNode
            /\ UNCHANGED <<connectionSourceNodeId, selectedConnectionId>>
       ELSE /\ connectionSourceNodeId' = JsNull
            /\ selectedConnectionId' = JsNull
            /\ UNCHANGED <<history, selectedNodeId>>
    /\ currentEditingNodeId' = EditNode
    /\ ui' = [ui EXCEPT !.isEditing = TRUE,
                        !.editTitle = TitleOf(nodes, EditNode).s,
                        !.observer = <<TRUE>>,
                        !.edits = @ + 1]
    /\ UNCHANGED <<nodes, connections, isConnectionMode, connectionTimeoutRef, timers,
                   preventNextSelection, isConnectionDragging, connectionDragStartNode,
                   activeTool>>
    /\ DidEdit("startEditing")

\* onChange / onChangeText: the field now holds text
Type(text) ==
    /\ EditLive
    /\ ui.isEditing
    /\ text # ui.editTitle
    /\ ui' = [Idle(ui) EXCEPT !.editTitle = text]
    /\ NoGraphChange
    /\ UNCHANGED sessionVars
    /\ UNCHANGED activeTool
    /\ DidEdit("type")

\* handleEditConfirm with the page's handlers
Confirmed(op) ==
    /\ nodes' = handleEditConfirm(nodes, EditNode, ui.editTitle)
    /\ currentEditingNodeId' = JsNull
    /\ ui' = Left(ui, nodes')
    /\ UNCHANGED <<connections, history, connectionSourceNodeId, isConnectionMode,
                   connectionTimeoutRef, timers, selectedConnectionId, selectedNodeId,
                   preventNextSelection, isConnectionDragging, connectionDragStartNode,
                   activeTool>>
    /\ DidEdit(op)

\* web: Enter in the textarea. mobile: onSubmitEditing of the TextInput
EnterKey ==
    /\ EditLive
    /\ ui.isEditing
    /\ Confirmed("confirm")

\* web: the textarea loses the focus (a press on the tool bar, the Tab key)
Blur ==
    /\ EditLive
    /\ platform = "web"
    /\ ui.isEditing
    /\ Confirmed("blur")

\* web: Escape in the textarea runs handleEditCancel (the mobile component
\* defines the handler and binds it to nothing)
EscapeInField ==
    /\ EditLive
    /\ platform = "web"
    /\ ui.isEditing
    /\ nodes' = handleEditCancel(nodes, EditNode, ui.editTitle)
    /\ currentEditingNodeId' = JsNull
    /\ ui' = Left(ui, nodes')
    /\ UNCHANGED <<connections, history, connectionSourceNodeId, isConnectionMode,
                   connectionTimeoutRef, timers, selectedConnectionId, selectedNodeId,
                   preventNextSelection, isConnectionDragging, connectionDragStartNode,
                   activeTool>>
    /\ DidEdit("cancel")

\* the forced-exit effect after the page cleared currentEditingNodeId: the
\* web component runs handleEditCancel, the mobile one handleEditConfirm
forcedExit(q, nodeId, editTitle) ==
    IF platform = "web"
    THEN handleEditCancel(q, nodeId, editTitle)
    ELSE handleEditConfirm(q, nodeId, editTitle)

\* web: a press on the background away from the last one, which calls
\* preventDefault, so the textarea keeps the focus until it is unmounted
EditBackgroundPress ==
    /\ EditLive
    /\ platform = "web"
    /\ activeTool # "pencil"
    /\ clearSelections
    /\ nodes' = IF ui.isEditing THEN forcedExit(nodes, EditNode, ui.editTitle) ELSE nodes
    /\ ui' = [(IF ui.isEditing THEN Left(ui, nodes') ELSE Idle(ui))
                 EXCEPT !.lastClickTime = DateNow]
    /\ UNCHANGED <<connections, history, selectedNodeId, isConnectionDragging,
                   connectionDragStartNode, activeTool>>
    /\ DidEdit(IF ui.isEditing THEN "forcedExit" ELSE "backgroundPress")

\* mobile: a tap on a tool of the tool bar
EditToolChange(tool) ==
    /\ EditLive
    /\ platform = "mobile"
    /\ tool # activeTool \/ ui.isEditing
    /\ mobileHandleToolChange(tool)
    /\ nodes' = IF ui.isEditing THEN forcedExit(nodes, EditNode, ui.editTitle) ELSE nodes
    /\ ui' = IF ui.isEditing THEN Left(ui, nodes') ELSE Idle(ui)
    /\ UNCHANGED <<connections, history, isConnectionMode, connectionTimeoutRef, timers,
                   selectedNodeId, preventNextSelection, isConnectionDragging,
                   connectionDragStartNode>>
    /\ DidEdit(IF ui.isEditing THEN "forcedExit" ELSE "toolChange")

NextEdit ==
    \/ StartEditing
    \/ \E text \in EditTexts : Type(text)
    \/ EnterKey
    \/ Blur
    \/ EscapeInField
    \/ EditBackgroundPress
    \/ \E tool \in MobileTools : EditToolChange(tool)

SpecEdit == InitEdit /\ [][NextEdit]_vars

----------------------------------------------------------------------------
(* Claims about editing a title *)

Blank(text) == \A i \in 1..Len(text) : IsWhiteSpace(text[i])

\* t is text without the white space around it
IsTrimOf(t, text) ==
    /\ t = <<>> \/ (~IsWhiteSpace(t[1]) /\ ~IsWhiteSpace(t[Len(t)]))
    /\ \E i \in 0..Len(text), j \in 0..Len(text) :
          /\ i + Len(t) + j = Len(text)
          /\ Blank(SubSeq(text, 1, i))
          /\ SubSeq(text, i + 1, i + Len(t)) = t
          /\ Blank(SubSeq(text, i + Len(t) + 1, Len(text)))

StoredTitle == TitleOf(nodes, EditNode).s

\* the step leaves the editing state through the event op
Leaves(op) == EditLive /\ ui.isEditing /\ last'.op = op

LeftEditing == ~ui'.isEditing /\ ui'.observer = <<FALSE>> /\ currentEditingNodeId' = JsNull

\* C19: leaving the editing state by confirm (Enter or submit, and the blur
\* of the web textarea) changes the title if and only if the trimmed text is
\* not empty and differs from the title, and then the title is the trimmed
\* text; leaving by Escape never changes the title; either way the node no
\* longer edits and the observer was called with isEditing = false.
C19_ConfirmCommitsCancelKeeps ==
    /\ [][(Leaves("confirm") \/ Leaves("blur")) =>
             /\ StoredTitle' # StoredTitle <=>
                   (~Blank(ui.editTitle) /\ ~IsTrimOf(StoredTitle, ui.editTitle))
             /\ StoredTitle' # StoredTitle => IsTrimOf(StoredTitle', ui.editTitle)
             /\ LeftEditing]_vars
    /\ [][Leaves("cancel") => (nodes' = nodes /\ LeftEditing)]_vars

\* a text with white space around it was confirmed and its trimmed form is
\* the title now, on a node that no longer edits
C19_Witness ==
    /\ ui.pc = "edit"
    /\ last.op = "confirm"
    /\ last.b.s # <<>>
    /\ IsWhiteSpace(last.b.s[Len(last.b.s)])
    /\ StoredTitle # TitleOf(defaultNodes, EditNode).s
    /\ StoredTitle # last.b.s
    /\ IsTrimOf(StoredTitle, last.b.s)
    /\ ~ui.isEditing
    /\ ui.observer = <<FALSE>>

\* C20: when the page clears the editing id while the node edits, the edit
\* is cancelled on both front ends: the stored title is unchanged whatever
\* was typed, the node stops editing and the observer is called with
\* isEditing = false.
C20_ForcedExitCancels ==
    [][Leaves("forcedExit") => (StoredTitle' = StoredTitle /\ LeftEditing)]_vars

\* the part that holds: the forced exit ends the edit and notifies the
\* observer on both front ends, and on the web the title is kept
C20_ForcedExitLeaves ==
    [][Leaves("forcedExit") =>
          /\ LeftEditing
          /\ platform = "web" => nodes' = nodes]_vars

\* mobile: the tool was switched while 'X' was in the field, and 'X' is the
\* title now
C20_Witness ==
    /\ ui.pc = "edit"
    /\ platform = "mobile"
    /\ last.op = "forcedExit"
    /\ last.b = S1("X")
    /\ StoredTitle = <<"X">>
    /\ ~ui.isEditing

----------------------------------------------------------------------------
(* Claims about the stored graph *)

\* no two elements of q that carry an id carry the same one
UniqueIds(q) ==
    \A i, j \in 1..Len(q) :
        (i # j /\ Get(q[i], K("id")).k # "undefined") =>
            Get(q[i], K("id")) # Get(q[j], K("id"))

\* C21: from a graph with unique ids, gestures and applied patches leave no
\* two nodes with the same id and no two connections with the same id.
C21_IdsStayUnique ==
    (pm.pc = "done" /\ UniqueIds(pm.origin.nodes) /\ UniqueIds(pm.origin.connections)) =>
        (UniqueIds(Working.nodes) /\ UniqueIds(Working.connections))

\* the part that holds: the gestures of the web page (connection creation,
\* deletions, undo) keep the ids of the graph unique
C21_GesturesKeepIdsUnique ==
    platform = "web" => (UniqueIds(nodes) /\ UniqueIds(connections))

\* a patch that adds the node 'n4' twice was applied to a graph with unique
\* ids: the result holds two nodes with the id 'n4'
C21_Witness ==
    /\ pm.pc = "done"
    /\ UniqueIds(pm.origin.nodes)
    /\ \E i, j \in 1..Len(Working.nodes) :
          /\ i # j
          /\ Get(Working.nodes[i], K("id")) = S1("n4")
          /\ Get(Working.nodes[j], K("id")) = S1("n4")

----------------------------------------------------------------------------
(* Node positions: handleNodePositionChange and node creation, both front ends *)

MaxMoves == 2                 \* position changes and creations in a behaviour

\* the numbers that are not finite
NaN == [k |-> "number", n |-> 0, s |-> <<"NaN">>, o |-> EmptyObj, a |-> <<>>]
PositiveInfinity == [k |-> "number", n |-> 1, s |-> <<"Infinity">>, o |-> EmptyObj, a |-> <<>>]

\* isNaN(v) of a number
isNaN(v) == v = NaN

\* Number.isFinite(v)
IsFiniteNumber(v) == v.k = "number" /\ v.s \notin {<<"NaN">>, <<"Infinity">>}

\* coordinates a caller can hand over
Coordinates == {Num(7), NaN, PositiveInfinity}

\* handleNodePositionChange(nodeId, newX, newY): the nodes afterwards
handleNodePositionChange(q, nodeId, newX, newY) ==
    [i \in 1..Len(q) |->
        IF Get(q[i], K("id")) # nodeId THEN q[i]
        ELSE IF platform = "web"
        THEN Obj((K("x") :> newX) @@ (K("y") :> newY) @@ q[i].o)
        ELSE Obj((K("x") :> IF isNaN(newX) THEN Get(q[i], K("x")) ELSE newX) @@
                 (K("y") :> IF isNaN(newY) THEN Get(q[i], K("y")) ELSE newY) @@ q[i].o)]

\* the node createNewNode (web, viewport not yet measured and not panned:
\* relativeX = x) and createNewNodeMobile build
NewNode(x, y, random) ==
    IF platform = "web"
    THEN Obj((K("id") :> Str(<<ToString(DateNow)>>)) @@
             (K("title") :> Str(<<"Nuovo", " ", "Nodo">>)) @@
             (K("x") :> x) @@ (K("y") :> y))
    ELSE Obj((K("id") :> Str(<<"node", "-", ToString(DateNow), "-", ToString(random)>>)) @@
             (K("title") :> Str(<<"Nuovo", " ", "Nodo">>)) @@
             (K("x") :> IF isNaN(x) THEN Num(0) ELSE x) @@
             (K("y") :> IF isNaN(y) THEN Num(0) ELSE y) @@
             (K("color") :> S1("#6b7280")))

InitPosition ==
    /\ InitSession
    /\ coord = CoordIdle
    /\ pm = PatchIdle
    /\ ui = [pc |-> "position", moves |-> 0]

DidPosition(op, a) ==
    /\ last' = [op |-> op, a |-> a, b |-> JsUndefined, r |-> ""]
    /\ ui' = [ui EXCEPT !.moves = @ + 1]
    /\ UNCHANGED <<platform, coord, pm, now, pendingElapsed>>

\* the dragged node reports a position
NodePositionChange(nodeId, newX, newY) ==
    /\ ui.pc = "position"
    /\ ui.moves < MaxMoves
    /\ nodeId \in IdsOf(nodes)
    /\ nodes' = handleNodePositionChange(nodes, nodeId, newX, newY)
    /\ UNCHANGED <<connections, history>>
    /\ UNCHANGED sessionVars
    /\ DidPosition("handleNodePositionChange", nodeId)

\* a double click (web) or double tap (mobile) on the background at (x, y)
CreateNode(x, y, random) ==
    /\ ui.pc = "position"
    /\ ui.moves < MaxMoves
    /\ nodes' = Append(nodes, NewNode(x, y, random))
    /\ connections' = connections
    /\ IF platform = "web"
       THEN /\ CanPush
            /\ history' = PushHistory
            /\ UNCHANGED sessionVars
       ELSE /\ history' = history
            /\ currentEditingNodeId' = Get(NewNode(x, y, random), K("id"))
            /\ connectionSourceNodeId' = JsNull
            /\ selectedConnectionId' = JsNull
            /\ UNCHANGED <<isConnectionMode, connectionTimeoutRef, timers, selectedNodeId,
                           preventNextSelection, isConnectionDragging,
                           connectionDragStartNode, activeTool>>
    /\ DidPosition("createNewNode", Get(NewNode(x, y, random), K("id")))

NextPosition ==
    \/ \E nodeId \in {Node1, Node2}, newX \in Coordinates, newY \in Coordinates :
          NodePositionChange(nodeId, newX, newY)
    \/ \E x \in Coordinates, y \in Coordinates, random \in 1..NumRandom :
          CreateNode(x, y, random)

SpecPosition == InitPosition /\ [][NextPosition]_vars

----------------------------------------------------------------------------
(* Claims about stored coordinates *)

\* every element of q has finite numbers as x and y
FiniteCoordinates(q) ==
    \A i \in 1..Len(q) :
        IsFiniteNumber(Get(q[i], K("x"))) /\ IsFiniteNumber(Get(q[i], K("y")))

\* C22: every stored node has finite numeric x and y: a NaN, infinite or
\* missing coordinate that arrives with a position change, a creation or a
\* patch add or replace is replaced by the previous value or 0 before it is
\* stored.
C22_CoordinatesStayFinite ==
    (pm.pc = "done" /\ FiniteCoordinates(pm.origin.nodes)) => FiniteCoordinates(Working.nodes)

\* the part that holds on mobile: a NaN that arrives with a position change
\* or a creation is never stored
C22_MobileSubstitutesNaN ==
    (ui.pc = "position" /\ platform = "mobile") =>
        \A i \in 1..Len(nodes) : Get(nodes[i], K("x")) # NaN /\ Get(nodes[i], K("y")) # NaN

\* a patch that inserts the node 'n4' at index 1 was applied to a graph with
\* finite coordinates: the node is stored without x and y
C22_Witness ==
    /\ pm.pc = "done"
    /\ FiniteCoordinates(pm.origin.nodes)
    /\ Len(Working.nodes) > 1
    /\ Get(Working.nodes[2], K("id")) = S1("n4")
    /\ Get(Working.nodes[2], K("x")) = JsUndefined

----------------------------------------------------------------------------
(* The connections layer: which stored connections are rendered *)

MaxRenderSteps == 3           \* handlers run in a behaviour of the render specification

\* nodes.find(n => n.id === id): the node, or undefined
findNode(q, id) ==
    IF \E i \in 1..Len(q) : Get(q[i], K("id")) = id
    THEN q[CHOOSE i \in 1..Len(q) :
              /\ Get(q[i], K("id")) = id
              /\ \A j \in 1..(i - 1) : Get(q[j], K("id")) # id]
    ELSE JsUndefined

\* variant: only the source node is looked up
rendersConnection_SourceOnly(q, connection) ==
    Truthy(findNode(q, Get(connection, K("sourceId"))))

\* if (!sourceNode || !targetNode) return null
rendersConnection(q, connection) ==
    /\ Truthy(findNode(q, Get(connection, K("sourceId"))))
    /\ Truthy(findNode(q, Get(connection, K("targetId"))))

\* connections.map(...): the connections for which an element is returned
RECURSIVE renderedConnections(_, _)
renderedConnections(q, conns) ==
    IF conns = <<>> THEN <<>>
    ELSE (IF rendersConnection(q, Head(conns)) THEN <<Head(conns)>> ELSE <<>>)
            \o renderedConnections(q, Tail(conns))

\* variant: every operation is applied to a fresh copy of the state the call
\* was given, so that it does not see the operations before it
RECURSIVE applyFrom_FromOriginal(_, _, _)
applyFrom_FromOriginal(h, patch, i) ==
    IF i > Len(patch) THEN h
    ELSE applyFrom_FromOriginal(
             catchContinue(h, applyOperation(
                 [h EXCEPT !.workingNodes = h.stateNodes,
                           !.workingConnections = h.stateConnections],
                 [nodes |-> "workingNodes", connections |-> "workingConnections"],
                 patch[i])).heap,
             patch, i + 1)

\* applyJsonPatch(state, patch): the loop over the operations of the patch
RECURSIVE applyFrom(_, _, _)
applyFrom(h, patch, i) ==
    IF i > Len(patch) THEN h
    ELSE applyFrom(catchContinue(h, applyOperation(h,
                       [nodes |-> "workingNodes", connections |-> "workingConnections"],
                       patch[i])).heap,
                   patch, i + 1)

applyJsonPatch(g, patch) ==
    LET h == InputHeap(g)
        working == [h EXCEPT !.workingNodes = h.stateNodes,
                             !.workingConnections = h.stateConnections]
    IN Graph(applyFrom(working, patch, 1), "workingNodes", "workingConnections")

\* a connection from 'node-1' to the node 'n4'
DanglingValue ==
    Obj((K("id") :> S1("c9")) @@ (K("sourceId") :> Node1) @@ (K("targetId") :> S1("n4")))

\* patches that take a node away and leave its connections, that add a
\* connection to a node that is not there, and that add the node
RenderPatches ==
    { <<Op("remove", <<K("nodes"), <<"0">>>>, JsUndefined)>>,
      <<Op("remove", <<K("nodes"), <<"1">>>>, JsUndefined)>>,
      <<AppendConnection(DanglingValue)>>,
      <<Op("add", <<K("nodes"), <<"-">>>>, NodeValue)>> }

InitRender ==
    /\ InitSession
    /\ coord = CoordIdle
    /\ pm = PatchIdle
    /\ ui = [pc |-> "render",
             rendered |-> renderedConnections(defaultNodes, defaultConnections),
             hidden |-> {},            \* ids the render before this one left out
             steps |-> 0]

\* the render that follows the handler op
Rendered(op, a) ==
    /\ ui' = [ui EXCEPT !.rendered = renderedConnections(nodes', connections'),
                        !.hidden = IdsOf(connections) \ IdsOf(ui.rendered),
                        !.steps = @ + 1]
    /\ last' = [op |-> op, a |-> a, b |-> JsUndefined, r |-> ""]
    /\ UNCHANGED <<platform, coord, pm, now, pendingElapsed>>

\* a click in the delete area of node nodeId
RenderNodeDelete(nodeId) ==
    /\ ui.pc = "render"
    /\ ui.steps < MaxRenderSteps
    /\ nodeId \in IdsOf(nodes)
    /\ IF platform = "web"
       THEN /\ handleNodeDelete(nodeId)
            /\ UNCHANGED <<selectedConnectionId, selectedNodeId, preventNextSelection,
                           isConnectionDragging, connectionDragStartNode, activeTool>>
       ELSE /\ mobileHandleNodeDelete(nodeId)
            /\ UNCHANGED <<history, isConnectionMode, connectionTimeoutRef, timers,
                           selectedConnectionId, selectedNodeId, preventNextSelection,
                           isConnectionDragging, connectionDragStartNode, activeTool>>
    /\ Rendered("handleNodeDelete", nodeId)

\* web: the proposed patch is approved
ApplyProposedDiff(patch) ==
    /\ ui.pc = "render"
    /\ ui.steps < MaxRenderSteps
    /\ platform = "web"
    /\ LET newState == applyJsonPatch(Snapshot, patch)
       IN /\ nodes' = newState.nodes
          /\ connections' = newState.connections
    /\ history' = history
    /\ UNCHANGED sessionVars
    /\ Rendered("applyProposedDiff", JsUndefined)

\* web: the "Indietro" button
RenderUndo ==
    /\ ui.pc = "render"
    /\ ui.steps < MaxRenderSteps
    /\ platform = "web"
    /\ undo
    /\ UNCHANGED sessionVars
    /\ Rendered("undo", JsUndefined)

NextRender ==
    \/ \E nodeId \in IdsOf(nodes) : RenderNodeDelete(nodeId)
    \/ \E patch \in RenderPatches : ApplyProposedDiff(patch)
    \/ RenderUndo

SpecRender == InitRender /\ [][NextRender]_vars

----------------------------------------------------------------------------
(* Claims about the rendered connections *)

Elements(q) == {q[i] : i \in 1..Len(q)}

BothEndsExist(connection) ==
    /\ Get(connection, K("sourceId")) \in IdsOf(nodes)
    /\ Get(connection, K("targetId")) \in IdsOf(nodes)

\* C23: the connections handed to rendering are exactly the stored
\* connections whose sourceId and targetId both name a node of the graph; a
\* connection with a missing end is left out but stays stored, and is
\* rendered again once the node is back.
C23_RenderedAreTheAnchored ==
    ui.pc = "render" =>
        /\ Elements(ui.rendered) = {c \in Elements(connections) : BothEndsExist(c)}
        /\ \A c \in Elements(connections) : ~BothEndsExist(c) => c \notin Elements(ui.rendered)

\* a connection the render before left out is rendered after the undo
\* brought its node back
C23_Witness ==
    /\ ui.pc = "render"
    /\ last.op = "undo"
    /\ \E c \in Elements(ui.rendered) : Get(c, K("id")) \in ui.hidden

\* a connection with a missing end is stored and not rendered
C23_Dangling ==
    /\ ui.pc = "render"
    /\ \E c \in Elements(connections) : ~BothEndsExist(c) /\ c \notin Elements(ui.rendered)

----------------------------------------------------------------------------
(* shared/curvature-utils: direction sectors and adaptive curvature *)

MaxAngle == 720               \* angles range over -MaxAngle..MaxAngle half degrees

\* angles are counted in half degrees: 45 degrees is Deg(45) = 90
Deg(d) == 2 * d

\* the number i/100 (0.25 is Hundredths(25))
Hundredths(i) == [k |-> "number", n |-> i, s |-> <<"/100">>, o |-> EmptyObj, a |-> <<>>]

\* a % m of JavaScript: the sign of the result is the sign of a
jsRemainder(a, m) == IF a >= 0 THEN a % m ELSE -((-a) % m)

\* an angle of n half degrees, and the angle NaN
Angle(n) == [nan |-> FALSE, n |-> n]
NaNAngle == [nan |-> TRUE, n |-> 0]

\* getDirectionSector(angle); every comparison with NaN is false
getDirectionSector(angle) ==
    IF angle.nan THEN "northeast"
    ELSE LET normalizedAngle ==
                 jsRemainder(jsRemainder(angle.n, Deg(360)) + Deg(360), Deg(360))
         IN CASE normalizedAngle >= Deg(315) \/ normalizedAngle < Deg(45) -> "east"
              [] normalizedAngle >= Deg(45) /\ normalizedAngle < Deg(90) -> "southeast"
              [] normalizedAngle >= Deg(90) /\ normalizedAngle < Deg(135) -> "south"
              [] normalizedAngle >= Deg(135) /\ normalizedAngle < Deg(180) -> "southwest"
              [] normalizedAngle >= Deg(180) /\ normalizedAngle < Deg(225) -> "west"
              [] normalizedAngle >= Deg(225) /\ normalizedAngle < Deg(270) -> "northwest"
              [] normalizedAngle >= Deg(270) /\ normalizedAngle < Deg(315) -> "north"
              [] OTHER -> "northeast"

\* getOptimalCurvature(sector)
getOptimalCurvature(sector) ==
    CASE sector \in {"north", "south"} ->
            [intensity |-> Hundredths(25), direction |-> "clockwise"]
      [] sector \in {"east", "west"} ->
            [intensity |-> Hundredths(35), direction |-> "counterclockwise"]
      [] sector \in {"northeast", "southeast"} ->
            [intensity |-> Hundredths(45), direction |-> "counterclockwise"]
      [] sector \in {"northwest", "southwest"} ->
            [intensity |-> Hundredths(45), direction |-> "clockwise"]
      [] OTHER -> [intensity |-> Hundredths(30), direction |-> "clockwise"]

\* options.curvature || 0.3
fixedIntensity(curvature) == IF Truthy(curvature) THEN curvature ELSE Hundredths(30)

\* calculateAdaptiveCurvature(from, to, options), where angle is what
\* calculateAngle(from, to) returned
calculateAdaptiveCurvature(angle, options) ==
    LET sector == getDirectionSector(angle)
        optimal == getOptimalCurvature(sector)
    IN IF ~Truthy(options.adaptiveCurvature)
       THEN [intensity |-> fixedIntensity(options.curvature),
             direction |-> IF options.curvatureDirection = S1("counterclockwise")
                           THEN "counterclockwise" ELSE "clockwise",
             angle |-> angle, sector |-> sector]
       ELSE [intensity |-> IF Truthy(options.curvature) THEN options.curvature
                           ELSE optimal.intensity,
             direction |-> IF options.curvatureDirection = S1("auto")
                           THEN optimal.direction
                           ELSE IF Truthy(options.curvatureDirection)
                           THEN options.curvatureDirection.s[1]
                           ELSE optimal.direction,
             angle |-> angle, sector |-> sector]

\* every half degree of two turns, and NaN
Angles == {Angle(n) : n \in -MaxAngle..MaxAngle} \cup {NaNAngle}

\* one angle in each range the sectors could be told apart by, both ways
CurveAngles == {Angle(Deg(22 * i)) : i \in 0..16}

\* the options of a connection: the fields may be absent
CurveOptions ==
    [adaptiveCurvature : {JsUndefined, JsFalse, JsTrue},
     curvature : {JsUndefined, Hundredths(0), Hundredths(5), Hundredths(50), Hundredths(100)},
     curvatureDirection : {JsUndefined, S1("auto"), S1("clockwise"), S1("counterclockwise")}]

NoOptions ==
    [adaptiveCurvature |-> JsUndefined, curvature |-> JsUndefined,
     curvatureDirection |-> JsUndefined]

\* nothing returned yet; a call of getDirectionSector fills in the sector
NoResult == [intensity |-> JsUndefined, direction |-> "", angle |-> NaNAngle, sector |-> ""]

InitCurve ==
    /\ InitSession
    /\ coord = CoordIdle
    /\ pm = PatchIdle
    /\ ui \in [pc : {"curve"}, call : {"getDirectionSector"}, angle : Angles,
               options : {NoOptions}, done : {FALSE}, result : {NoResult}]
           \cup
           [pc : {"curve"}, call : {"calculateAdaptiveCurvature"}, angle : CurveAngles,
            options : CurveOptions, done : {FALSE}, result : {NoResult}]

curveIdle ==
    /\ NoGraphChange
    /\ UNCHANGED sessionVars
    /\ UNCHANGED <<platform, coord, pm, now, pendingElapsed, last>>

GetDirectionSector ==
    /\ ui.pc = "curve"
    /\ ui.call = "getDirectionSector"
    /\ ~ui.done
    /\ ui' = [ui EXCEPT !.done = TRUE, !.result.sector = getDirectionSector(ui.angle)]
    /\ curveIdle

CalculateAdaptiveCurvature ==
    /\ ui.pc = "curve"
    /\ ui.call = "calculateAdaptiveCurvature"
    /\ ~ui.done
    /\ ui' = [ui EXCEPT !.done = TRUE,
                        !.result = calculateAdaptiveCurvature(ui.angle, ui.options)]
    /\ curveIdle

NextCurve == GetDirectionSector \/ CalculateAdaptiveCurvature

SpecCurve == InitCurve /\ [][NextCurve]_vars

----------------------------------------------------------------------------
(* Claims about the curvature *)

SectorNames == <<"east", "southeast", "south", "southwest",
                 "west", "northwest", "north", "northeast">>

\* the direction the i-th sector is named after: 0, 45, ..., 315 degrees
Centre(i) == Deg(45 * (i - 1))

\* the distance on the circle between two angles of [0, 360)
CircularDistance(a, b) ==
    LET d == IF a >= b THEN a - b ELSE b - a
    IN IF d > Deg(180) THEN Deg(360) - d ELSE d

SectorCalled == ui.pc = "curve" /\ ui.call = "getDirectionSector" /\ ui.done

InCircle(a) == ~a.nan /\ a.n >= 0 /\ a.n < Deg(360)

\* C24: getDirectionSector divides [0, 360) into 8 sectors of 45 degrees,
\* each centred on the direction it is named after (east on 0, southeast on
\* 45, south on 90, ... northeast on 315): an angle closer than 22.5 degrees
\* to one of these directions is in the sector of that name.
C24_SectorsCentred ==
    (SectorCalled /\ InCircle(ui.angle)) =>
        \A i \in 1..8 :
            2 * CircularDistance(ui.angle.n, Centre(i)) < Deg(45) =>
                ui.result.sector = SectorNames[i]

\* what the function computes: east for [315, 360) and [0, 45), then
\* southeast, south, southwest, west, northwest, north for the six ranges of
\* 45 degrees from 45 on; northeast for no number
C24_SectorsAsCoded ==
    (SectorCalled /\ InCircle(ui.angle)) =>
        /\ ui.result.sector # "northeast"
        /\ ui.result.sector = "east" <=> (ui.angle.n < Deg(45) \/ ui.angle.n >= Deg(315))
        /\ \A i \in 2..7 :
              ui.result.sector = SectorNames[i] <=>
                  (ui.angle.n >= Deg(45 * (i - 1)) /\ ui.angle.n < Deg(45 * i))

\* 44 degrees, one degree from southeast, was classified as east
C24_Witness ==
    /\ SectorCalled
    /\ ui.angle = Angle(Deg(44))
    /\ ui.result.sector = "east"

CurvatureCalled == ui.pc = "curve" /\ ui.call = "calculateAdaptiveCurvature" /\ ui.done

ExplicitFixed ==
    /\ CurvatureCalled
    /\ ui.options.adaptiveCurvature = JsFalse
    /\ ui.options.curvature # JsUndefined
    /\ ui.options.curvatureDirection \in {S1("clockwise"), S1("counterclockwise")}

\* C25: with adaptiveCurvature false, calculateAdaptiveCurvature returns the
\* explicit curvature as intensity, for every explicit value in [0, 1], and
\* the explicit curvatureDirection as direction, whatever the sector.
C25_ExplicitOverrides ==
    ExplicitFixed =>
        /\ ui.result.intensity = ui.options.curvature
        /\ ui.result.direction = ui.options.curvatureDirection.s[1]

\* the part that holds: every explicit curvature other than 0 is returned,
\* and the explicit direction always is
C25_NonZeroOverrides ==
    ExplicitFixed =>
        /\ ui.options.curvature # Hundredths(0) => ui.result.intensity = ui.options.curvature
        /\ ui.result.direction = ui.options.curvatureDirection.s[1]

\* an explicit curvature of 0 came back as 0.3
C25_Witness ==
    /\ ExplicitFixed
    /\ ui.options.curvature = Hundredths(0)
    /\ ui.result.intensity = Hundredths(30)
    /\ ui.result.sector = "south"

----------------------------------------------------------------------------
(* Connection anchor points: CurvedConnection (web) and the connection      *)
(* calculations of the mobile connection.  Coordinates are pixels; a        *)
(* computed coordinate is the exact quotient num / den (den = 0: the 0 / 0  *)
(* of JavaScript, NaN), so that the divisions of the code are kept.         *)

MaxGrid == 1

\* the centres of the model lie on a grid whose diagonal passes through the
\* corner of a 120 x 65 node
GridX == 120
GridY == 65

\* const padding = 8 of getAnchorPoint; calculateAnchorPoint adds none
padding == 8

Rat(n, d) == [num |-> n, den |-> d]

Sign(v) == IF v > 0 THEN 1 ELSE -1

\* getAnchorPoint(from, to, nodeDimensions) of the web, calculateAnchorPoint
\* of the mobile (pad = 0).  normalizedX and normalizedY are dx and dy over
\* the distance; the distance, positive past the early return, cancels in
\* the comparison and in both quotients, and leaves the signs as they are.
getAnchorPoint(from, to, nodeDimensions, pad) ==
    LET dx == to.x - from.x
        dy == to.y - from.y
        width == nodeDimensions.width
        height == nodeDimensions.height
    IN IF dx = 0 /\ dy = 0
       THEN [x |-> Rat(from.x, 1), y |-> Rat(from.y, 1)]
       ELSE IF width * Abs(dy) < height * Abs(dx)
            THEN [x |-> Rat(2 * from.x + Sign(dx) * (width + 2 * pad), 2),
                  y |-> Rat(from.y * 2 * Abs(dx) + dy * width, 2 * Abs(dx))]
            ELSE [x |-> Rat(from.x * 2 * Abs(dy) + dx * height, 2 * Abs(dy)),
                  y |-> Rat(2 * from.y + Sign(dy) * (height + 2 * pad), 2)]

anchorPadding == IF platform = "web" THEN padding ELSE 0

GridPoints == {[x |-> GridX * i, y |-> GridY * j] : i, j \in -MaxGrid..MaxGrid}

\* the dimensions of a short and of a long title
AnchorDimensions == {[width |-> 120, height |-> 65], [width |-> 200, height |-> 95]}

NoPoint == [x |-> Rat(0, 1), y |-> Rat(0, 1)]

InitAnchor ==
    /\ InitSession
    /\ coord = CoordIdle
    /\ pm = PatchIdle
    /\ ui \in [pc : {"anchor"}, sourceCenterPos : GridPoints, targetCenterPos : GridPoints,
               sourceDimensions : AnchorDimensions, targetDimensions : AnchorDimensions,
               done : {FALSE}, startPoint : {NoPoint}, endPoint : {NoPoint}]

\* the connection is rendered: both anchor points are computed
RenderConnection ==
    /\ ui.pc = "anchor"
    /\ ~ui.done
    /\ ui' = [ui EXCEPT
                !.done = TRUE,
                !.startPoint = getAnchorPoint(ui.sourceCenterPos, ui.targetCenterPos,
                                              ui.sourceDimensions, anchorPadding),
                !.endPoint = getAnchorPoint(ui.targetCenterPos, ui.sourceCenterPos,
                                            ui.targetDimensions, anchorPadding)]
    /\ curveIdle

\* a node of the connection is dragged to another place
AnchorNodeMove ==
    /\ ui.pc = "anchor"
    /\ ui.done
    /\ \E p \in GridPoints :
          \/ ui' = [ui EXCEPT !.sourceCenterPos = p, !.done = FALSE]
          \/ ui' = [ui EXCEPT !.targetCenterPos = p, !.done = FALSE]
    /\ curveIdle

NextAnchor == RenderConnection \/ AnchorNodeMove

SpecAnchor == InitAnchor /\ [][NextAnchor]_vars

----------------------------------------------------------------------------
(* Claims about the anchor points *)

\* twice the distance, times the denominator, of the coordinate c from the centre
Offset2(c, centre) == Abs(2 * c.num - 2 * centre * c.den)

\* the point is strictly inside the rectangle of the given centre and dimensions
StrictlyInside(p, centre, dim) ==
    /\ p.x.den > 0 /\ p.y.den > 0
    /\ Offset2(p.x, centre.x) < dim.width * p.x.den
    /\ Offset2(p.y, centre.y) < dim.height * p.y.den

\* the point is on the boundary of the rectangle, or outside it at a distance
\* of at most pad from one of its sides
OnBoundaryOrPadded(p, centre, dim, pad) ==
    /\ p.x.den > 0 /\ p.y.den > 0
    /\ ~StrictlyInside(p, centre, dim)
    /\ Offset2(p.x, centre.x) <= (dim.width + 2 * pad) * p.x.den
    /\ Offset2(p.y, centre.y) <= (dim.height + 2 * pad) * p.y.den
    /\ \/ Offset2(p.x, centre.x) <= dim.width * p.x.den
       \/ Offset2(p.y, centre.y) <= dim.height * p.y.den

AnchorsRendered == ui.pc = "anchor" /\ ui.done

BothOnBoundaryOrPadded ==
    /\ OnBoundaryOrPadded(ui.startPoint, ui.sourceCenterPos, ui.sourceDimensions, anchorPadding)
    /\ OnBoundaryOrPadded(ui.endPoint, ui.targetCenterPos, ui.targetDimensions, anchorPadding)

\* C26: for every pair of nodes, whatever their positions (coincident centres
\* included) and sizes, each anchor point computed for their connection is on
\* the boundary of its node's rectangle or outside it by at most the padding
\* (8 px on the web, 0 on the mobile), never strictly inside.
C26_AnchorsOnBoundary == AnchorsRendered => BothOnBoundaryOrPadded

\* what the code keeps: the claim for centres that differ; for coincident
\* centres both anchor points are the common centre
C26_DistinctCentresOnBoundary ==
    AnchorsRendered =>
        IF ui.sourceCenterPos # ui.targetCenterPos
        THEN BothOnBoundaryOrPadded
        ELSE /\ ui.startPoint = [x |-> Rat(ui.sourceCenterPos.x, 1),
                                 y |-> Rat(ui.sourceCenterPos.y, 1)]
             /\ ui.endPoint = ui.startPoint

\* two nodes with the same centre are joined and rendered: the anchor point of
\* the source is strictly inside its rectangle
C26_Witness ==
    /\ AnchorsRendered
    /\ ui.sourceCenterPos = ui.targetCenterPos
    /\ StrictlyInside(ui.startPoint, ui.sourceCenterPos, ui.sourceDimensions)

\* the line through the centres passes through a corner of the source, on the web
C26_Corner ==
    /\ AnchorsRendered
    /\ platform = "web"
    /\ ui.sourceCenterPos # ui.targetCenterPos
    /\ Offset2(ui.startPoint.x, ui.sourceCenterPos.x) = ui.sourceDimensions.width * ui.startPoint.x.den
    /\ Offset2(ui.startPoint.y, ui.sourceCenterPos.y)
         = (ui.sourceDimensions.height + 2 * padding) * ui.startPoint.y.den

----------------------------------------------------------------------------
(* utils/nodeSize: calculateNodeSize of the web, and of the mobile with its *)
(* cache                                                                    *)

MaxTextLength == 68           \* longest text sized, in characters

\* calculateNodeSize(text) of the web; the widths of its last branch are
\* computed in tenths of a pixel (2.5 per character)
calculateNodeSizeWeb(text) ==
    LET trimmedText == trim(text)
        textLength == CharLength(trimmedText)
        estimatedLines == CeilDiv(textLength, 22)
        actualLines == Min(estimatedLines, 4)
        estimatedWidth == Max(1200 + longestWord(trimmedText) * 60, 1200 + textLength * 25)
        estimatedHeight == 65 + (actualLines - 1) * 16
    IN CASE trimmedText = <<>> -> (K("width") :> Num(120)) @@ (K("height") :> Num(65))
         [] textLength <= 18 -> (K("width") :> Num(120)) @@ (K("height") :> Num(65))
         [] textLength <= 28 -> (K("width") :> Num(140)) @@ (K("height") :> Num(70))
         [] textLength <= 40 -> (K("width") :> Num(160)) @@ (K("height") :> Num(80))
         [] OTHER -> (K("width") :> TenthsOfPx(Min(2200, Max(1200, estimatedWidth))))
                     @@ (K("height") :> Num(Min(130, Max(65, estimatedHeight))))

\* nodeSizeCache.has(cacheKey), nodeSizeCache.get(cacheKey)
cacheHas(nodeSizeCache, cacheKey) == \E e \in nodeSizeCache : e.key = cacheKey
cacheGet(nodeSizeCache, cacheKey) == (CHOOSE e \in nodeSizeCache : e.key = cacheKey).value

\* nodeSizeCache.set(cacheKey, result)
cacheSet(nodeSizeCache, cacheKey, result) ==
    {e \in nodeSizeCache : e.key # cacheKey} \cup {[key |-> cacheKey, value |-> result]}

\* variant: whatever the cache holds is returned for any text
calculateNodeSizeCached_AnyEntry(nodeSizeCache, text) ==
    IF nodeSizeCache # {}
    THEN [result |-> (CHOOSE e \in nodeSizeCache : TRUE).value, nodeSizeCache |-> nodeSizeCache]
    ELSE [result |-> calculateNodeSize(text),
          nodeSizeCache |-> cacheSet(nodeSizeCache, trim(text), calculateNodeSize(text))]

\* calculateNodeSize(text) of the mobile: what it returns and the cache it leaves
calculateNodeSizeCached(nodeSizeCache, text) ==
    LET trimmedText == trim(text)
    IN IF trimmedText = <<>>
       THEN [result |-> (K("width") :> Num(120)) @@ (K("height") :> Num(65)),
             nodeSizeCache |-> nodeSizeCache]
       ELSE IF cacheHas(nodeSizeCache, trimmedText)
            THEN [result |-> cacheGet(nodeSizeCache, trimmedText),
                  nodeSizeCache |-> nodeSizeCache]
            ELSE [result |-> calculateNodeSize(text),
                  nodeSizeCache |-> cacheSet(nodeSizeCache, trimmedText, calculateNodeSize(text))]

\* the function of the front end that runs
sizeOf(nodeSizeCache, text) ==
    IF platform = "web"
    THEN [result |-> calculateNodeSizeWeb(text), nodeSizeCache |-> nodeSizeCache]
    ELSE calculateNodeSizeCached(nodeSizeCache, text)

\* a word of n characters
RECURSIVE Letters(_)
Letters(n) == IF n = 0 THEN "" ELSE Letters(n - 1) \o "X"
Words == [n \in 0..(MaxTextLength + 1) |-> Letters(n)]
Word(n) == Words[n]

\* the texts sized: of every length, as one word, as two words, and as one
\* word between blanks
OneWord(n) == IF n = 0 THEN <<>> ELSE <<Word(n)>>
TwoWords(n) ==
    IF n < 3 THEN OneWord(n)
    ELSE <<Word((n - 1) \div 2), " ", Word(n - 1 - (n - 1) \div 2)>>
SizeTexts ==
    {OneWord(n) : n \in 0..MaxTextLength}
    \cup {TwoWords(n) : n \in 0..MaxTextLength}
    \cup {<<" ">> \o OneWord(n) \o <<" ">> : n \in 0..MaxTextLength}

\* the texts the callers of the model size: empty, blank, and of one, two and
\* three tokens on both sides of the first and of the last band
CallTexts ==
    {<<>>, <<" ">>, OneWord(15), <<" ", Word(16), " ">>, TwoWords(41), TwoWords(51),
     OneWord(MaxTextLength)}

NoSize == (K("width") :> Num(0)) @@ (K("height") :> Num(0))

InitSize ==
    /\ InitSession
    /\ coord = CoordIdle
    /\ pm = PatchIdle
    /\ ui = [pc |-> "size", nodeSizeCache |-> {}, text |-> <<>>, done |-> FALSE,
             result |-> NoSize]

\* a caller sizes a text
CalculateNodeSize ==
    /\ ui.pc = "size"
    /\ \E text \in CallTexts :
          ui' = [ui EXCEPT !.text = text, !.done = TRUE,
                           !.result = sizeOf(ui.nodeSizeCache, text).result,
                           !.nodeSizeCache = sizeOf(ui.nodeSizeCache, text).nodeSizeCache]
    /\ curveIdle

\* clearNodeSizeCache()
ClearNodeSizeCache ==
    /\ ui.pc = "size"
    /\ platform = "mobile"
    /\ ui.nodeSizeCache # {}
    /\ ui' = [ui EXCEPT !.nodeSizeCache = {}]
    /\ curveIdle

NextSize == CalculateNodeSize \/ ClearNodeSizeCache

SpecSize == InitSize /\ [][NextSize]_vars

----------------------------------------------------------------------------
(* Claims about the node sizes *)

\* a dimension in tenths of a pixel
InTenths(v) == IF v.s = <<"/10">> THEN v.n ELSE 10 * v.n

NoLarger(a, b) ==
    /\ InTenths(a[K("width")]) <= InTenths(b[K("width")])
    /\ InTenths(a[K("height")]) <= InTenths(b[K("height")])

TrimmedLength(text) == CharLength(trim(text))

Sized == ui.pc = "size" /\ ui.done

\* what a call returns now, with the cache as it is
SizeNow(text) == sizeOf(ui.nodeSizeCache, text).result

\* what a call returns with an empty cache
SizeFresh(text) == sizeOf({}, text).result

\* C27: calculateNodeSize is deterministic and monotone: the size returned for
\* a text is the size returned for it with an empty cache and the size the
\* next call returns for it; with the cache as it is, every text gets the size
\* it gets with an empty cache, which is the size of every text of its trimmed
\* length, and no smaller or equal length gets a larger width or height.
C27_DeterministicMonotone ==
    Sized =>
        /\ ui.result = SizeFresh(ui.text)
        /\ ui.result = SizeNow(ui.text)
        /\ \A a \in SizeTexts :
              /\ SizeNow(a) = SizeFresh(a)
              /\ SizeNow(a) = SizeNow(OneWord(TrimmedLength(a)))
        /\ \A n \in 0..MaxTextLength : \A m \in n..MaxTextLength :
              NoLarger(SizeNow(OneWord(n)), SizeNow(OneWord(m)))

\* a text of the last branch was answered from the cache while the cache holds
\* a text of another band
C27_Witness ==
    /\ Sized
    /\ platform = "mobile"
    /\ TrimmedLength(ui.text) > 50
    /\ cacheHas(ui.nodeSizeCache, trim(ui.text))
    /\ \E e \in ui.nodeSizeCache : CharLength(e.key) <= 15
    /\ ui.result = dynamicNodeSize(trim(ui.text))

\* C28: the two front ends size nodes identically: for every text the web
\* calculateNodeSize and the mobile calculateNodeSize return the same width
\* and height.
C28_SameSizeOnBoth ==
    Sized =>
        \A text \in SizeTexts :
            calculateNodeSizeWeb(text) = calculateNodeSizeCached(ui.nodeSizeCache, text).result

\* what the code keeps: the sizes agree up to 15 characters, and differ for
\* every longer text
C28_SameSizeUpTo15 ==
    Sized =>
        \A text \in SizeTexts :
            calculateNodeSizeWeb(text) = calculateNodeSizeCached(ui.nodeSizeCache, text).result
                <=> TrimmedLength(text) <= 15

\* a title of 16 characters is sized: 120 x 65 on the web, 160 x 75 on the mobile
C28_Witness ==
    /\ Sized
    /\ TrimmedLength(ui.text) = 16
    /\ calculateNodeSizeWeb(ui.text) = (K("width") :> Num(120)) @@ (K("height") :> Num(65))
    /\ calculateNodeSize(ui.text) = (K("width") :> Num(160)) @@ (K("height") :> Num(75))

----------------------------------------------------------------------------
(* StorageManager: the mind maps kept in localStorage *)

MaxClock == 2                 \* readings of Date.now() after the first
MaxStored == 3                \* mind maps stored at most

\* Date.now() at the reading of the clock
ClockReading(clock) == EPOCH + clock

StoredMap(id, title, createdAt, updatedAt) ==
    [id |-> id, title |-> title, createdAt |-> createdAt, updatedAt |-> updatedAt]

\* title || 'New Mind Map'
titleOrDefault(title) == IF title = <<>> THEN <<"New Mind Map">> ELSE title

\* createMindMap(title): the new map; mindMaps.unshift(newMindMap)
createMindMap(title, clock) ==
    StoredMap(ToString(ClockReading(clock)), titleOrDefault(title), ClockReading(clock), ClockReading(clock))

\* importMindMap(exportData): the imported map
importMindMap(exportData, clock) ==
    [exportData.mindMap EXCEPT !.id = ToString(ClockReading(clock)),
                               !.title = @ \o <<" (Imported)">>,
                               !.updatedAt = ClockReading(clock)]

unshift(mindMaps, map) == <<map>> \o mindMaps

\* the titles a user gives, none included
StorageTitles == {<<>>, <<"Idee">>}

\* the files a user can import: exported from this storage at an earlier
\* time or from another one
ExportFiles ==
    {[version |-> "1.0", mindMap |-> StoredMap(id, title, EPOCH, EPOCH), exportedAt |-> EPOCH] :
        id \in {ToString(EPOCH), "abc"},
        title \in {<<"Idee">>, <<"Idee", " (Imported)">>}}

NoMap == StoredMap("", <<>>, 0, 0)

InitStorage ==
    /\ InitSession
    /\ coord = CoordIdle
    /\ pm = PatchIdle
    /\ ui = [pc |-> "storage", clock |-> 0, mindMaps |-> <<>>, op |-> "",
             before |-> <<>>, file |-> NoMap, returned |-> NoMap]

\* a millisecond passes
StorageTick ==
    /\ ui.pc = "storage"
    /\ ui.clock < MaxClock
    /\ ui' = [ui EXCEPT !.clock = @ + 1, !.op = "tick"]
    /\ curveIdle

CreateMindMap ==
    /\ ui.pc = "storage"
    /\ Len(ui.mindMaps) < MaxStored
    /\ \E title \in StorageTitles :
          ui' = [ui EXCEPT !.op = "create", !.before = ui.mindMaps, !.file = NoMap,
                           !.returned = createMindMap(title, ui.clock),
                           !.mindMaps = unshift(ui.mindMaps, createMindMap(title, ui.clock))]
    /\ curveIdle

ImportMindMap ==
    /\ ui.pc = "storage"
    /\ Len(ui.mindMaps) < MaxStored
    /\ \E exportData \in ExportFiles :
          ui' = [ui EXCEPT !.op = "import", !.before = ui.mindMaps,
                           !.file = exportData.mindMap,
                           !.returned = importMindMap(exportData, ui.clock),
                           !.mindMaps = unshift(ui.mindMaps, importMindMap(exportData, ui.clock))]
    /\ curveIdle

\* deleteMindMap(mindMapId) of a stored map
DeleteMindMap ==
    /\ ui.pc = "storage"
    /\ \E i \in 1..Len(ui.mindMaps) :
          ui' = [ui EXCEPT !.op = "delete", !.before = ui.mindMaps, !.file = NoMap,
                           !.returned = NoMap,
                           !.mindMaps = SelectSeq(ui.mindMaps,
                                                  LAMBDA map : map.id # ui.mindMaps[i].id)]
    /\ curveIdle

NextStorage == StorageTick \/ CreateMindMap \/ ImportMindMap \/ DeleteMindMap

SpecStorage == InitStorage /\ [][NextStorage]_vars

----------------------------------------------------------------------------
(* Claims about the storage *)

Imported == ui.pc = "storage" /\ ui.op = "import"

StoredIds(mindMaps) == {mindMaps[i].id : i \in 1..Len(mindMaps)}

\* the maps stored before are all there, unchanged and in their order, after
\* the returned one, whose title is the title of the file and ' (Imported)'
ImportAdds ==
    /\ ui.mindMaps = <<ui.returned>> \o ui.before
    /\ ui.returned.title = ui.file.title \o <<" (Imported)">>

\* C29: importMindMap stores the imported map under an id that differs from
\* the id of every map already stored, maps created or imported at the same
\* reading of the clock included, leaves the maps stored before unchanged, and
\* gives the imported map the title of the original followed by ' (Imported)'.
C29_ImportFreshId ==
    Imported => (ImportAdds /\ ui.returned.id \notin StoredIds(ui.before))

\* what the code keeps: the stored maps and the title, and an id that is the
\* reading of the clock: fresh exactly when no stored map was created or
\* imported at this reading
C29_ImportIdIsClock ==
    Imported =>
        /\ ImportAdds
        /\ ui.returned.id = ToString(ClockReading(ui.clock))
        /\ ui.returned.id \notin StoredIds(ui.before)
              <=> \A i \in 1..Len(ui.before) :
                      ui.before[i].createdAt # ClockReading(ui.clock)
                      /\ ui.before[i].updatedAt # ClockReading(ui.clock)

\* a map is imported in the millisecond an other one was created: two stored
\* maps have the same id
C29_Witness ==
    /\ Imported
    /\ Len(ui.mindMaps) >= 2
    /\ ui.mindMaps[1].id = ui.mindMaps[2].id
    /\ ui.mindMaps[2].title = <<"New Mind Map">>

----------------------------------------------------------------------------
(* Saving the map: the persist effect of the page, for a signed-in user     *)
(* whose map is loaded.  A save in flight is the snapshot handed to         *)
(* MindMapsRepo.upsert; its promise settles at any later moment.            *)

MaxMutations == 3             \* handler calls that change the page state

\* the map handed to MindMapsRepo.upsert
upsertMap(ns, cs) == [nodes |-> ns, connections |-> cs]

\* prev.map(c => c.id === selectedConnectionId ? {...c, relation: opt} : c)
setRelation(conns, connectionId, opt) ==
    [i \in 1..Len(conns) |->
        IF Get(conns[i], K("id")) = connectionId
        THEN Obj((K("relation") :> opt) @@ conns[i].o)
        ELSE conns[i]]

\* the effect after a render in which nodes, connections or isDirty changed:
\* the saves in flight afterwards
persistEffect(inflight, isDirty, ns, cs) ==
    IF isDirty THEN inflight \cup {upsertMap(ns, cs)} ELSE inflight

InitPersist ==
    /\ InitSession
    /\ platform = "web"
    /\ coord = CoordIdle
    /\ pm = PatchIdle
    /\ ui = [pc |-> "persist", isDirty |-> FALSE, inflight |-> {},
             persisted |-> upsertMap(nodes, connections),
             nodeDragActive |-> FALSE, mutations |-> 0, op |-> "load"]

\* a handler ran: nodes' and connections' are the lists it set (changed: it
\* set one of them), isDirty is dirty afterwards, and the effect ran when one
\* of the three changed
Mutated(op, dirty, changed, dragActive) ==
    /\ ui' = [ui EXCEPT
                !.op = op,
                !.mutations = @ + 1,
                !.isDirty = dirty,
                !.nodeDragActive = dragActive,
                !.inflight = IF changed \/ dirty # ui.isDirty
                             THEN persistEffect(ui.inflight, dirty, nodes', connections')
                             ELSE ui.inflight]
    /\ UNCHANGED sessionVars
    /\ UNCHANGED <<platform, coord, pm, now, pendingElapsed, last>>

CanMutate == ui.pc = "persist" /\ ui.mutations < MaxMutations

\* handleNodeDragStateChange(true): a drag of a node starts
PersistDragStart ==
    /\ CanMutate
    /\ ~ui.nodeDragActive
    /\ CanPush
    /\ history' = PushHistory
    /\ UNCHANGED <<nodes, connections>>
    /\ Mutated("handleNodeDragStateChange", TRUE, FALSE, TRUE)

\* handleNodePositionChange: the dragged node moves
PersistDragMove ==
    /\ CanMutate
    /\ ui.nodeDragActive
    /\ Node1 \in IdsOf(nodes)
    /\ \E newX \in {Num(7), Num(8)} :
          nodes' = handleNodePositionChange(nodes, Node1, newX, Num(7))
    /\ UNCHANGED <<connections, history>>
    /\ Mutated("handleNodePositionChange", ui.isDirty, TRUE, TRUE)

\* handleNodeDragStateChange(false): the node is released
PersistDragEnd ==
    /\ ui.pc = "persist"
    /\ ui.nodeDragActive
    /\ UNCHANGED <<nodes, connections, history>>
    /\ ui' = [ui EXCEPT !.nodeDragActive = FALSE, !.op = "release"]
    /\ UNCHANGED sessionVars
    /\ UNCHANGED <<platform, coord, pm, now, pendingElapsed, last>>

\* handleTitleChange of the page
PersistTitleChange ==
    /\ CanMutate
    /\ Node1 \in IdsOf(nodes)
    /\ nodes' = MapNode(nodes, Node1, K("title") :> Str(<<"X">>))
    /\ UNCHANGED <<connections, history>>
    /\ Mutated("handleTitleChange", TRUE, TRUE, ui.nodeDragActive)

\* createNewNode of the page
PersistCreateNode ==
    /\ CanMutate
    /\ CanPush
    /\ history' = PushHistory
    /\ nodes' = Append(nodes, NewNode(Num(7), Num(7), 1))
    /\ connections' = connections
    /\ Mutated("createNewNode", TRUE, TRUE, ui.nodeDragActive)

\* handleNodeDelete of the page
PersistNodeDelete ==
    /\ CanMutate
    /\ \E nodeId \in IdsOf(nodes) \cap {Node2} : handleNodeDelete(nodeId)
    /\ Mutated("handleNodeDelete", TRUE, TRUE, ui.nodeDragActive)

\* a relation is picked in the menu of the selected connection
PersistRelationChange ==
    /\ CanMutate
    /\ connections # <<>>
    /\ connections' = setRelation(connections, Get(connections[1], K("id")), S1("crea"))
    /\ UNCHANGED <<nodes, history>>
    /\ Mutated("relation", ui.isDirty, TRUE, ui.nodeDragActive)

\* the promise of a save resolves: setIsDirty(false); the effect runs when
\* isDirty changed and returns at once
SaveResolved ==
    /\ ui.pc = "persist"
    /\ \E map \in ui.inflight :
          ui' = [ui EXCEPT !.inflight = @ \ {map}, !.persisted = map,
                           !.isDirty = FALSE, !.op = "resolved"]
    /\ UNCHANGED <<nodes, connections, history>>
    /\ UNCHANGED sessionVars
    /\ UNCHANGED <<platform, coord, pm, now, pendingElapsed, last>>

\* the promise of a save rejects: catch(() => {})
SaveRejected ==
    /\ ui.pc = "persist"
    /\ \E map \in ui.inflight :
          ui' = [ui EXCEPT !.inflight = @ \ {map}, !.op = "rejected"]
    /\ UNCHANGED <<nodes, connections, history>>
    /\ UNCHANGED sessionVars
    /\ UNCHANGED <<platform, coord, pm, now, pendingElapsed, last>>

NextPersist ==
    \/ PersistDragStart
    \/ PersistDragMove
    \/ PersistDragEnd
    \/ PersistTitleChange
    \/ PersistCreateNode
    \/ PersistNodeDelete
    \/ PersistRelationChange
    \/ SaveResolved
    \/ SaveRejected

SpecPersist == InitPersist /\ [][NextPersist]_vars

----------------------------------------------------------------------------
(* Claims about saving *)

\* the map is reported clean and no save is in flight
CleanAndIdle == ui.pc = "persist" /\ ui.inflight = {} /\ ~ui.isDirty

Unsaved == ui.persisted # upsertMap(nodes, connections)

\* C30: under any interleaving of the mutations of the graph with the
\* completions of the saves, whenever no save is in flight and isDirty is
\* false, the snapshot persisted last equals the graph in memory.
C30_CleanMeansSaved == CleanAndIdle => ~Unsaved

\* a relation is changed while the map is clean: nothing is saved, and the
\* map stays clean
C30_Witness ==
    /\ CleanAndIdle
    /\ Unsaved
    /\ ui.op = "relation"
    /\ ui.mutations = 1

\* a node is dragged, the save started at the start of the drag resolves, and
\* the node is moved and released: its position is not saved
C30_DragUnsaved ==
    /\ CleanAndIdle
    /\ Unsaved
    /\ ui.op = "release"
    /\ connections = ui.persisted.connections

\* the handlers that set the nodes and isDirty leave a save of the graph in
\* flight, and the start of a drag leaves the map dirty
C30_DirtyHandlersSave ==
    /\ (ui.pc = "persist" /\ ui.op \in {"handleTitleChange", "createNewNode", "handleNodeDelete"})
          => (ui.isDirty /\ upsertMap(nodes, connections) \in ui.inflight)
    /\ (ui.pc = "persist" /\ ui.op = "handleNodeDragStateChange") => ui.isDirty

----------------------------------------------------------------------------
(* The undo history of the page: every action of the user that changes the  *)
(* graph, followed by the "Indietro" button                                 *)

MaxActions == 2               \* actions of the user before the undo

\* the patches a user approves: a title is replaced, a connection is added
HistoryPatches ==
    { <<ReplaceTitle("nodes", <<"0">>)>>, <<AppendConnection(ConnectionValue)>> }

InitHistory ==
    /\ InitSession
    /\ platform = "web"
    /\ coord = CoordIdle
    /\ pm = PatchIdle
    /\ ui = [pc |-> "history", actions |-> 0, busy |-> "", op |-> "",
             before |-> Snapshot, undid |-> "", expected |-> Snapshot, lengthBefore |-> 0]

historyRest == UNCHANGED <<platform, coord, pm, now, pendingElapsed, last>>

CanAct == ui.pc = "history" /\ ui.busy = "" /\ ui.actions < MaxActions

\* the action op of the user begins: the graph before it is noted
Began(op, busy) ==
    /\ ui' = [ui EXCEPT !.op = op, !.busy = busy, !.actions = @ + 1, !.before = Snapshot,
                        !.undid = ""]
    /\ historyRest

\* a double click on the background
HistoryCreateNode ==
    /\ CanAct
    /\ CanPush
    /\ history' = PushHistory
    /\ nodes' = Append(nodes, NewNode(Num(7), Num(7), 1))
    /\ connections' = connections
    /\ UNCHANGED sessionVars
    /\ Began("createNewNode", "")

HistoryNodeDelete ==
    /\ CanAct
    /\ \E nodeId \in IdsOf(nodes) : handleNodeDelete(nodeId)
    /\ UNCHANGED <<selectedConnectionId, selectedNodeId, preventNextSelection,
                   isConnectionDragging, connectionDragStartNode, activeTool>>
    /\ Began("handleNodeDelete", "")

HistoryConnectionDelete ==
    /\ CanAct
    /\ \E connectionId \in IdsOf(connections) : handleConnectionDelete(connectionId)
    /\ UNCHANGED <<currentEditingNodeId, connectionSourceNodeId, isConnectionMode,
                   connectionTimeoutRef, timers, selectedNodeId, preventNextSelection,
                   isConnectionDragging, connectionDragStartNode, activeTool>>
    /\ Began("handleConnectionDelete", "")

\* a gesture commits the pair
HistoryCreateConnection ==
    /\ CanAct
    /\ \E sourceId \in IdsOf(nodes), targetId \in IdsOf(nodes) :
          /\ createConnectionAccepts(sourceId, targetId)
          /\ createConnection(sourceId, targetId)
    /\ UNCHANGED sessionVars
    /\ Began("createConnection", "")

\* handleEditStateChange(nodeId, true): the title of a node is opened
HistoryEditStart ==
    /\ CanAct
    /\ Node1 \in IdsOf(nodes)
    /\ CanPush
    /\ history' = PushHistory
    /\ currentEditingNodeId' = Node1
    /\ UNCHANGED <<nodes, connections>>
    /\ UNCHANGED <<connectionSourceNodeId, isConnectionMode, connectionTimeoutRef, timers,
                   selectedConnectionId, selectedNodeId, preventNextSelection,
                   isConnectionDragging, connectionDragStartNode, activeTool>>
    /\ Began("edit", "edit")

\* handleTitleChange and handleEditStateChange(nodeId, false): the title is
\* confirmed
HistoryEditConfirm ==
    /\ ui.pc = "history"
    /\ ui.busy = "edit"
    /\ nodes' = MapNode(nodes, Node1, K("title") :> Str(<<"X">>))
    /\ currentEditingNodeId' = JsNull
    /\ UNCHANGED <<connections, history>>
    /\ UNCHANGED <<connectionSourceNodeId, isConnectionMode, connectionTimeoutRef, timers,
                   selectedConnectionId, selectedNodeId, preventNextSelection,
                   isConnectionDragging, connectionDragStartNode, activeTool>>
    /\ ui' = [ui EXCEPT !.busy = ""]
    /\ historyRest

\* handleNodeDragStateChange(true): a drag of a node starts
HistoryDragStart ==
    /\ CanAct
    /\ Node1 \in IdsOf(nodes)
    /\ CanPush
    /\ history' = PushHistory
    /\ UNCHANGED <<nodes, connections>>
    /\ UNCHANGED sessionVars
    /\ Began("drag", "drag")

\* handleNodePositionChange, then handleNodeDragStateChange(false): the node
\* is moved and released
HistoryDragMove ==
    /\ ui.pc = "history"
    /\ ui.busy = "drag"
    /\ nodes' = handleNodePositionChange(nodes, Node1, Num(7), Num(8))
    /\ UNCHANGED <<connections, history>>
    /\ UNCHANGED sessionVars
    /\ ui' = [ui EXCEPT !.busy = ""]
    /\ historyRest

\* applyProposedDiff: the proposed patch is approved
HistoryApplyProposedDiff ==
    /\ CanAct
    /\ \E patch \in HistoryPatches :
          LET newState == applyJsonPatch(Snapshot, patch)
          IN /\ nodes' = newState.nodes
             /\ connections' = newState.connections
    /\ history' = history
    /\ UNCHANGED sessionVars
    /\ Began("applyProposedDiff", "")

\* the "Indietro" button, enabled while the history holds a snapshot
HistoryUndo ==
    /\ ui.pc = "history"
    /\ ui.busy = ""
    /\ undo
    /\ UNCHANGED sessionVars
    /\ ui' = [ui EXCEPT !.op = "undo", !.undid = ui.op, !.expected = ui.before,
                        !.lengthBefore = Len(history)]
    /\ historyRest

NextHistory ==
    \/ HistoryCreateNode
    \/ HistoryNodeDelete
    \/ HistoryConnectionDelete
    \/ HistoryCreateConnection
    \/ HistoryEditStart
    \/ HistoryEditConfirm
    \/ HistoryDragStart
    \/ HistoryDragMove
    \/ HistoryApplyProposedDiff
    \/ HistoryUndo

SpecHistory == InitHistory /\ [][NextHistory]_vars

----------------------------------------------------------------------------
(* Claims about undo *)

\* the actions that change the graph
MutatingActions ==
    {"createNewNode", "handleNodeDelete", "handleConnectionDelete", "createConnection",
     "edit", "drag", "applyProposedDiff"}

\* undo ran right after the action op
UndidAction(op) == ui.pc = "history" /\ ui.op = "undo" /\ ui.undid = op

\* the graph is the one before the undone action, and the history is one shorter
Restored == Snapshot = ui.expected /\ Len(history) = ui.lengthBefore - 1

\* C31: undo invoked right after any single action that changes the graph
\* (node created, node deleted, connection deleted, connection created, title
\* edited, node dragged, patch approved) restores nodes and connections as
\* they were before that action, and the history gets one shorter.
C31_UndoRestores == \A op \in MutatingActions : UndidAction(op) => Restored

\* what the code keeps: the claim for every action but the approved patch;
\* after a patch, undo restores the graph the action before the patch found
C31_UndoRestoresPushed ==
    \A op \in MutatingActions \ {"applyProposedDiff"} : UndidAction(op) => Restored

\* a node is created, a patch that retitles a node is approved, and undo runs:
\* the graph is not the one the patch found
C31_Witness ==
    /\ UndidAction("applyProposedDiff")
    /\ Snapshot # ui.expected
    /\ Len(ui.expected.nodes) = Len(defaultNodes) + 1
    /\ Len(nodes) = Len(defaultNodes)

----------------------------------------------------------------------------
(* The connection gestures of the page next to the actions that replace the *)
(* graph: undo, an approved patch, an imported map                          *)

\* the patches a user approves here: a node is removed
PendingPatches ==
    { <<Op("remove", <<K("nodes"), <<"1">>>>, JsUndefined)>>,
      <<Op("remove", <<K("nodes"), <<"2">>>>, JsUndefined)>> }

\* the map of an imported file: the default map without 'node-1'
ImportedMap ==
    [nodes |-> <<defaultNodes[1], defaultNodes[3]>>,
     connections |-> <<defaultConnections[2]>>]

\* applyProposedDiff while a gesture may be pending
PendingApplyProposedDiff(patch) ==
    /\ platform = "web"
    /\ LET newState == applyJsonPatch(Snapshot, patch)
       IN /\ nodes' = newState.nodes
          /\ connections' = newState.connections
          /\ newState.nodes # nodes
    /\ history' = history
    /\ UNCHANGED sessionVars
    /\ UNCHANGED now
    /\ pendingElapsed' = pendingElapsed
    /\ Did("applyProposedDiff", JsUndefined, JsUndefined, "")

\* importMindMap of the page: the promise of the upload resolves
PendingImport ==
    /\ platform = "web"
    /\ Snapshot # ImportedMap
    /\ nodes' = ImportedMap.nodes
    /\ connections' = ImportedMap.connections
    /\ history' = history
    /\ UNCHANGED sessionVars
    /\ UNCHANGED now
    /\ pendingElapsed' = pendingElapsed
    /\ Did("importMindMap", JsUndefined, JsUndefined, "")

NextPending ==
    \/ \E nodeId \in IdsOf(nodes), isCtrlClick \in BOOLEAN :
          ConnectionClick(nodeId, isCtrlClick)
    \/ \E nodeId \in IdsOf(nodes) : ConnectionDragStart(nodeId)
    \/ \E nodeId \in IdsOf(nodes) : ConnectionDragEndOnNode(nodeId)
    \/ ConnectionDragEndOnBackground
    \/ \E nodeId \in IdsOf(nodes) : NodeDelete(nodeId)
    \/ ConsumePreventSelection
    \/ Undo
    \/ ConnectionTimeout
    \/ Tick
    \/ \E patch \in PendingPatches : PendingApplyProposedDiff(patch)
    \/ PendingImport

\* the web page after mount
InitPending ==
    /\ InitSession
    /\ platform = "web"
    /\ coord = CoordIdle
    /\ pm = PatchIdle
    /\ ui = UiIdle

SpecPending == InitPending /\ [][NextPending]_vars

----------------------------------------------------------------------------
(* Claims about the ends of created connections *)

\* a click or a drag has just committed a connection: it is the last one
GestureCommitted ==
    /\ last.op \in {"handleConnectionClick", "handleConnectionDragEnd"}
    /\ last.r = "committed"

Newest == connections[Len(connections)]

\* C32: every connection a gesture creates (commit by click or by drag) has a
\* sourceId and a targetId that both name nodes of the graph at the moment of
\* the creation, however the pending state was interleaved with node
\* deletions, undo, map imports and approved patches.
C32_EndsExistAtCreation ==
    GestureCommitted =>
        /\ Get(Newest, K("sourceId")) \in IdsOf(nodes)
        /\ Get(Newest, K("targetId")) \in IdsOf(nodes)

\* what the code keeps: the target is a node of the graph, and the source is
\* the node that was designated
C32_TargetExists ==
    GestureCommitted =>
        /\ Get(Newest, K("targetId")) \in IdsOf(nodes)
        /\ Get(Newest, K("targetId")) = last.a
        /\ Get(Newest, K("sourceId")) # last.a

\* a click commits a connection from 'node-1', which a patch or an import
\* removed while it was the pending source
C32_Witness ==
    /\ GestureCommitted
    /\ last.op = "handleConnectionClick"
    /\ Get(Newest, K("sourceId")) = Node1
    /\ Node1 \notin IdsOf(nodes)

----------------------------------------------------------------------------
(* Selection next to the actions that remove nodes and connections *)

NextSelection ==
    \/ \E nodeId \in IdsOf(nodes) : NodeSelect(nodeId)
    \/ \E connectionId \in IdsOf(connections) : ConnectionSelect(connectionId)
    \/ \E nodeId \in IdsOf(nodes) : NodeDelete(nodeId)
    \/ \E connectionId \in IdsOf(connections) : ConnectionDelete(connectionId)
    \/ \E tool \in WebTools : ToolChange(tool)
    \/ Undo
    \/ \E id \in IdsOf(connections) \cup IdsOf(nodes) : MobileConnectionClick(id)
    \/ \E connectionId \in IdsOf(connections) : MobileConnectionDelete(connectionId)
    \/ \E nodeId \in IdsOf(nodes) : MobileNodeDelete(nodeId)
    \/ MobileDeselectTimeout
    \/ Tick

SpecSelection == Init /\ [][NextSelection]_vars

----------------------------------------------------------------------------
(* Claims about the selection *)

ConnectionSelectionLive ==
    selectedConnectionId = JsNull \/ selectedConnectionId \in IdsOf(connections)

NodeSelectionLive ==
    selectedNodeId = JsNull \/ selectedNodeId \in IdsOf(nodes)

\* C33: in every reachable state of either front end, selectedConnectionId is
\* null or the id of a connection of the graph, and selectedNodeId is null or
\* the id of a node of the graph: no deletion, cascade, undo or tap on a node
\* leaves a selection that names nothing.
C33_SelectionNeverDangles ==
    ConnectionSelectionLive /\ NodeSelectionLive

\* what the code keeps: the deletion of a connection leaves it unselected
C33_DeletedConnectionUnselected ==
    last.op = "handleConnectionDelete" => selectedConnectionId # last.a

\* the web page has deleted a node whose connection was selected, or that was
\* itself selected
C33_Witness ==
    /\ platform = "web"
    /\ last.op = "handleNodeDelete"
    /\ \/ ~ConnectionSelectionLive
       \/ selectedNodeId = last.a

\* on the touch front end a tap on a node has made its id the selected
\* connection
C33_MobileTap ==
    /\ platform = "mobile"
    /\ last.op = "handleConnectionClick"
    /\ selectedConnectionId \in IdsOf(nodes)

----------------------------------------------------------------------------
(* Claims about editing and dragging *)

\* C34: in every reachable state no node is being edited and dragged at the
\* same time, however presses, releases, clicks, double clicks and firings of
\* the press-to-drag timer interleave.
C34_NeverEditingAndDragging ==
    Dragging(ui) \cap Editing(ui) = {}

\* the press-to-drag timer of a node has fired while another node is being
\* edited: one node drags, another edits, none does both
C34_Witness ==
    /\ last.op = "dragTimeout"
    /\ last.r = "dragging"
    /\ last.a \in Dragging(ui)
    /\ Editing(ui) # {}

----------------------------------------------------------------------------
(* Claims about the flag that suppresses the next selection *)

NodePress == last'.op = "mousedown" /\ last'.a # JsNull
NodeClick == last'.op = "click"
BackgroundPress == last'.op = "mousedown" /\ last'.a = JsNull
OnEditingNode == last'.a \in Editing(ui)

\* the input did nothing but reset the flag
Swallowed ==
    /\ last'.r = "consume"
    /\ ~preventNextSelection'
    /\ selectedNodeId' = selectedNodeId
    /\ ui'.timers = ui.timers
    /\ ui'.comp = ui.comp
    /\ UNCHANGED <<nodes, connections, history, connectionSourceNodeId,
                   isConnectionMode, isConnectionDragging, currentEditingNodeId>>

FlagResetters ==
    \/ BackgroundPress
    \/ last'.op = "toolClick"
    \/ last'.op = "connectionTimeout"

\* C35: the flag is one-shot. Once it is set, the first press or click on any
\* node is swallowed (no selection, no drag timer, no connection click) and
\* resets it; node inputs are then handled normally until a connection
\* commit sets it again; a background press, a tool switch and the pending
\* timeout reset it too.
C35_OneShot ==
    [][/\ (preventNextSelection /\ (NodePress \/ NodeClick)) => Swallowed
       /\ (~preventNextSelection /\ (NodePress \/ NodeClick)) => last'.r # "consume"
       /\ (~preventNextSelection /\ preventNextSelection') => last'.r = "committed"
       /\ FlagResetters => ~preventNextSelection']_vars

\* what the code keeps: an input on a node that is not being edited is
\* swallowed once and resets the flag, an input on a node being edited
\* changes nothing, the flag included
C35_OneShotUnlessEditing ==
    [][/\ (preventNextSelection /\ (NodePress \/ NodeClick) /\ ~OnEditingNode)
             => Swallowed
       /\ (preventNextSelection /\ (NodePress \/ NodeClick) /\ OnEditingNode)
             => /\ last'.r = "editing"
                /\ preventNextSelection'
                /\ UNCHANGED <<nodes, connections, history>>
                /\ UNCHANGED sessionVars
                /\ ui'.timers = ui.timers /\ ui'.comp = ui.comp
       /\ (~preventNextSelection /\ (NodePress \/ NodeClick)) => last'.r # "consume"
       /\ FlagResetters => ~preventNextSelection']_vars

\* the flag rises at the second click of the two-click gesture, whether the
\* connection is created or refused, and at every end of a connection drag
C35_FlagRises ==
    [][(~preventNextSelection /\ preventNextSelection') =>
          \/ last'.op = "click" /\ last'.r \in {"committed", "rejected"}
          \/ last'.op = "mouseup" /\ isConnectionDragging]_vars

\* a press on a node has been swallowed and has reset the flag
C35_SwallowedOnce ==
    /\ ui.pc = "on"
    /\ last.op = "mousedown"
    /\ last.r = "consume"
    /\ ~preventNextSelection

\* the flag is still set after a press on the node being edited
C35_Witness ==
    /\ ui.pc = "on"
    /\ last.op = "mousedown"
    /\ last.r = "editing"
    /\ preventNextSelection

----------------------------------------------------------------------------
(* The two-node gesture on both front ends: a node is designated, another *)
(* node is clicked or tapped                                               *)

NextTap ==
    \/ \E nodeId \in IdsOf(nodes), isCtrlClick \in BOOLEAN :
          ConnectionClick(nodeId, isCtrlClick)
    \/ \E nodeId \in IdsOf(nodes) : NodeSelect(nodeId)
    \/ ConsumePreventSelection
    \/ ConnectionTimeout
    \/ \E id \in IdsOf(connections) \cup IdsOf(nodes) : MobileConnectionClick(id)
    \/ \E tool \in MobileTools : MobileToolChange(tool)
    \/ MobileDeselectTimeout
    \/ Tick

SpecTap == Init /\ [][NextTap]_vars

----------------------------------------------------------------------------
(* Claims about the touch front end next to the pointer front end *)

\* the last input designated node a: the Ctrl+click that entered the pending
\* state on the web, the tap on the node on the touch front end
Designated(a) ==
    /\ last.op = "handleConnectionClick"
    /\ last.a = a
    /\ platform = "web" => last.r = "entered"

TapOn(b) == last'.op = "handleConnectionClick" /\ last'.a = b

TwoNodeGesture(a, b) ==
    /\ a # b
    /\ activeTool = "select"
    /\ Designated(a)
    /\ TapOn(b)
    /\ ~connectionExists(connections, a, b)

\* C36: on the touch front end, in the select tool, designating node A and
\* then tapping a different node B with no connection between them adds
\* exactly one connection between A and B, as on the pointer front end; and
\* a tap on a node never changes selectedConnectionId.
C36_TapConnects ==
    [][/\ \A a \in IdsOf(nodes), b \in IdsOf(nodes) :
             TwoNodeGesture(a, b) => AddedOne(a, b)
       /\ \A b \in IdsOf(nodes) :
             TapOn(b) => selectedConnectionId' = selectedConnectionId]_vars

\* what the code keeps: the pointer front end
C36_ClickConnects ==
    [][platform = "web" =>
          /\ \A a \in IdsOf(nodes), b \in IdsOf(nodes) :
                TwoNodeGesture(a, b) => AddedOne(a, b)
          /\ \A b \in IdsOf(nodes) :
                TapOn(b) => selectedConnectionId' = selectedConnectionId]_vars

\* what a tap on a node does on the touch front end: it is handled as a tap
\* on a connection with the id of the node
C36_TapSelects ==
    [][platform = "mobile" =>
          \A b \in IdsOf(nodes) :
             TapOn(b) =>
                /\ connections' = connections
                /\ connectionSourceNodeId' = JsNull
                /\ selectedConnectionId' =
                      IF selectedConnectionId = b THEN JsNull ELSE b]_vars

\* the touch front end after a tap on 'node-1' and a tap on 'node-2': no
\* connection was added and 'node-2' is the selected connection
C36_Witness ==
    /\ platform = "mobile"
    /\ activeTool = "select"
    /\ last.op = "handleConnectionClick"
    /\ last.a = Node2
    /\ last.b = Node1
    /\ connections = defaultConnections
    /\ selectedConnectionId = Node2

----------------------------------------------------------------------------
(* The control point of a curved connection: calculateControlPoint of the   *)
(* shared curvature-utils, the calculateControlPoint the web CurvedConnection *)
(* imports, and generateConnectionPath of the mobile connection.  Coordinates *)
(* are exact quotients; the distance, positive past the early return,         *)
(* cancels in perpX * strength and perpY * strength.                          *)

\* lengths of the segments of the model, in pixels
SegmentLengths == {100, 240}

\* the eight directions the sectors are named after
Directions == {<<1, 0>>, <<1, 1>>, <<0, 1>>, <<-1, 1>>,
               <<-1, 0>>, <<-1, -1>>, <<0, -1>>, <<1, -1>>}

\* calculateAngle(from, to) for a segment along one of the eight directions;
\* Math.atan2(0, 0) is 0
calculateAngle(from, to) ==
    LET dx == to.x - from.x
        dy == to.y - from.y
    IN CASE dy = 0 /\ dx >= 0 -> Angle(Deg(0))
         [] dx > 0 /\ dy = dx -> Angle(Deg(45))
         [] dx = 0 /\ dy > 0 -> Angle(Deg(90))
         [] dx < 0 /\ dy = -dx -> Angle(Deg(135))
         [] dy = 0 /\ dx < 0 -> Angle(Deg(180))
         [] dx < 0 /\ dy = dx -> Angle(Deg(225))
         [] dx = 0 /\ dy < 0 -> Angle(Deg(270))
         [] dx > 0 /\ dy = -dx -> Angle(Deg(315))

\* calculateControlPoint(startPoint, endPoint, curvatureConfig) of the shared
\* curvature-utils; the intensity is in hundredths
calculateControlPoint(startPoint, endPoint, curvatureConfig) ==
    LET dx == endPoint.x - startPoint.x
        dy == endPoint.y - startPoint.y
        directionMultiplier == IF curvatureConfig.direction = "clockwise" THEN 1 ELSE -1
        intensity == curvatureConfig.intensity.n
    IN IF dx = 0 /\ dy = 0
       THEN [x |-> Rat(startPoint.x, 1), y |-> Rat(startPoint.y, 1)]
       ELSE [x |-> Rat(100 * (startPoint.x + endPoint.x)
                          - dy * intensity * directionMultiplier, 200),
             y |-> Rat(100 * (startPoint.y + endPoint.y)
                          + dx * intensity * directionMultiplier, 200)]

\* connection.curvature || 0.3
curvatureAmount(connection) ==
    IF Truthy(connection.curvature) THEN connection.curvature ELSE Hundredths(30)

\* calculateControlPoint(startPoint, endPoint, curvature) that the web
\* CurvedConnection calls: offset = distance * curvature * 0.3
webCalculateControlPoint(startPoint, endPoint, curvature) ==
    LET dx == endPoint.x - startPoint.x
        dy == endPoint.y - startPoint.y
    IN IF dx = 0 /\ dy = 0
       THEN [x |-> Rat(startPoint.x, 1), y |-> Rat(startPoint.y, 1)]
       ELSE [x |-> Rat(500 * (startPoint.x + endPoint.x) - 3 * dy * curvature.n, 1000),
             y |-> Rat(500 * (startPoint.y + endPoint.y) + 3 * dx * curvature.n, 1000)]

\* controlPoint of generateConnectionPath (mobile): the midpoint when the
\* distance is 0
generateConnectionPath(startPoint, endPoint, connection) ==
    LET dx == endPoint.x - startPoint.x
        dy == endPoint.y - startPoint.y
        amount == curvatureAmount(connection)
    IN IF dx = 0 /\ dy = 0
       THEN [x |-> Rat(startPoint.x + endPoint.x, 2), y |-> Rat(startPoint.y + endPoint.y, 2)]
       ELSE [x |-> Rat(500 * (startPoint.x + endPoint.x) - 3 * dy * amount.n, 1000),
             y |-> Rat(500 * (startPoint.y + endPoint.y) + 3 * dx * amount.n, 1000)]

\* the control point the front end draws the curve with
renderedControlPoint(startPoint, endPoint, connection) ==
    IF platform = "web"
    THEN webCalculateControlPoint(startPoint, endPoint, curvatureAmount(connection))
    ELSE generateConnectionPath(startPoint, endPoint, connection)

ControlStarts == {[x |-> 0, y |-> 0], [x |-> 60, y |-> -35]}

MaxControlCalls == 2          \* the calls of one behaviour

InitControl ==
    /\ InitSession
    /\ coord = CoordIdle
    /\ pm = PatchIdle
    /\ \E s \in ControlStarts, d \in Directions \cup {<<0, 0>>}, len \in SegmentLengths,
          c \in CurveOptions, call \in {"render", "calculateControlPoint"} :
          ui = [pc |-> "control", call |-> call, startPoint |-> s,
                endPoint |-> [x |-> s.x + len * d[1], y |-> s.y + len * d[2]],
                connection |-> c, done |-> FALSE, controlPoint |-> NoPoint,
                calls |-> 1]

\* the connection is rendered
RenderControlPoint ==
    /\ ui.pc = "control"
    /\ ui.call = "render"
    /\ ~ui.done
    /\ ui' = [ui EXCEPT !.done = TRUE,
                        !.controlPoint = renderedControlPoint(ui.startPoint, ui.endPoint,
                                                              ui.connection)]
    /\ curveIdle

\* the shared function is called with what calculateAdaptiveCurvature returns
CalculateControlPoint ==
    /\ ui.pc = "control"
    /\ ui.call = "calculateControlPoint"
    /\ ~ui.done
    /\ ui' = [ui EXCEPT !.done = TRUE,
                        !.controlPoint =
                            calculateControlPoint(ui.startPoint, ui.endPoint,
                                calculateAdaptiveCurvature(
                                    calculateAngle(ui.startPoint, ui.endPoint),
                                    ui.connection))]
    /\ curveIdle

\* the connection is set straight or curved again: it is rendered anew
ControlAgain ==
    /\ ui.pc = "control"
    /\ ui.done
    /\ ui.calls < MaxControlCalls
    /\ ui' = [ui EXCEPT !.done = FALSE, !.controlPoint = NoPoint, !.calls = @ + 1]
    /\ curveIdle

NextControl == RenderControlPoint \/ CalculateControlPoint \/ ControlAgain

SpecControl == InitControl /\ [][NextControl]_vars

----------------------------------------------------------------------------
(* Claims about the control point *)

\* a coordinate in units of 1/2000 pixel
InUnits(c) == c.num * (2000 \div c.den)

\* the displacement of the control point from the midpoint, in these units
DisplacementX(p) == InUnits(p.x) - 1000 * (ui.startPoint.x + ui.endPoint.x)
DisplacementY(p) == InUnits(p.y) - 1000 * (ui.startPoint.y + ui.endPoint.y)

SegmentX == ui.endPoint.x - ui.startPoint.x
SegmentY == ui.endPoint.y - ui.startPoint.y

Coincident == SegmentX = 0 /\ SegmentY = 0

\* p is the midpoint displaced perpendicular to the segment by
\* factor / 2000 times the distance, to the side of (-dy, dx) times the sign:
\* a vector perpendicular to (dx, dy) has that length when its components
\* are factor times dy and dx in absolute value
DisplacedBy(p, factor, sign) ==
    /\ DisplacementX(p) * SegmentX + DisplacementY(p) * SegmentY = 0
    /\ Abs(DisplacementX(p)) = factor * Abs(SegmentY)
    /\ Abs(DisplacementY(p)) = factor * Abs(SegmentX)
    /\ sign * DisplacementX(p) * (-SegmentY) >= 0
    /\ sign * DisplacementY(p) * SegmentX >= 0

AtStart(p) ==
    /\ InUnits(p.x) = 2000 * ui.startPoint.x
    /\ InUnits(p.y) = 2000 * ui.startPoint.y

\* intensity and direction of the connection: the sector defaults when
\* adaptiveCurvature is true
Curvature == calculateAdaptiveCurvature(calculateAngle(ui.startPoint, ui.endPoint),
                                        ui.connection)

\* intensity * distance * 0.5, signed by the winding direction
AsSpecified(p) ==
    IF Coincident THEN AtStart(p)
    ELSE DisplacedBy(p, 10 * Curvature.intensity.n,
                     IF Curvature.direction = "clockwise" THEN 1 ELSE -1)

ControlRendered == ui.pc = "control" /\ ui.done /\ ui.call = "render"
ControlCalculated == ui.pc = "control" /\ ui.done /\ ui.call = "calculateControlPoint"

\* C37: the rendered control point of a curved connection is the midpoint of
\* the two anchor points displaced perpendicular to the segment by
\* intensity * distance * 0.5, to the side the winding direction gives, with
\* the sector defaults for intensity and direction when adaptiveCurvature is
\* true; for coincident anchor points it is the start point.
C37_RenderedControlPoint ==
    ControlRendered => AsSpecified(ui.controlPoint)

\* what the shared function computes: the specified point, and the two
\* winding directions give mirror images about the midpoint
C37_SharedControlPoint ==
    ControlCalculated =>
        /\ AsSpecified(ui.controlPoint)
        /\ LET cw == calculateControlPoint(ui.startPoint, ui.endPoint,
                        [intensity |-> Curvature.intensity, direction |-> "clockwise"])
               ccw == calculateControlPoint(ui.startPoint, ui.endPoint,
                         [intensity |-> Curvature.intensity,
                          direction |-> "counterclockwise"])
           IN /\ DisplacementX(cw) + DisplacementX(ccw) = 0
              /\ DisplacementY(cw) + DisplacementY(ccw) = 0

\* what both front ends render: the midpoint displaced by
\* (curvature || 0.3) * distance * 0.3, always to the side of (-dy, dx)
C37_RenderedAsCoded ==
    ControlRendered =>
        IF Coincident THEN AtStart(ui.controlPoint)
        ELSE DisplacedBy(ui.controlPoint, 6 * curvatureAmount(ui.connection).n, 1)

\* a connection with adaptiveCurvature true heading east is rendered: its
\* control point is not the one of the sector defaults
C37_Witness ==
    /\ ControlRendered
    /\ ui.connection.adaptiveCurvature = JsTrue
    /\ ui.connection.curvature = JsUndefined
    /\ SegmentX > 0 /\ SegmentY = 0
    /\ ~AsSpecified(ui.controlPoint)
    /\ DisplacedBy(ui.controlPoint, 180, 1)

----------------------------------------------------------------------------
(* Claims about the composition of patches *)

\* the call of the model has returned; a second call, on its result, as well
FirstCallDone == pm.pc = "done" /\ pm.round = 1
SecondCallDone == pm.pc = "done" /\ pm.round = 2

\* the patch of the call, cut after its first k operations
FirstPart(k) == SubSeq(pm.patch, 1, k)
SecondPart(k) == SubSeq(pm.patch, k + 1, Len(pm.patch))

\* C38: patch application composes: for every graph g and patches p1 and p2,
\* applyJsonPatch(g, p1 followed by p2) equals
\* applyJsonPatch(applyJsonPatch(g, p1), p2); each operation sees the effect
\* of the operations before it.
C38_PatchesCompose ==
    /\ FirstCallDone =>
          \A k \in 0..Len(pm.patch) :
             Working = applyJsonPatch(applyJsonPatch(pm.origin, FirstPart(k)),
                                      SecondPart(k))
    /\ SecondCallDone => Working = applyJsonPatch(pm.origin, pm.patch \o pm.patch)

\* the first node is removed, then the title at index 0 is replaced: the
\* title of what was the second node is replaced
C38_Witness ==
    /\ FirstCallDone
    /\ pm.origin.nodes = defaultNodes
    /\ pm.patch = << Op("remove", <<K("nodes"), <<"0">>>>, JsUndefined),
                     ReplaceTitle("nodes", <<"0">>) >>
    /\ Len(Working.nodes) = 2
    /\ Get(Working.nodes[1], K("id")) = Node1
    /\ Get(Working.nodes[1], K("title")) = S1("X")
    /\ Working = applyJsonPatch(applyJsonPatch(pm.origin, FirstPart(1)), SecondPart(1))

\* ---------------------------------------------------------------------------
\* The presses on the empty canvas of the web page: a first press starts to
\* pan, a second one close to it in time and place creates a node
\* ---------------------------------------------------------------------------

MaxBackgroundPresses == 5     \* presses on the canvas in one behaviour
PAGE_DOUBLE_CLICK_PX == 10    \* distance < 10 in handleBackgroundMouseDown
MaxCanvasTime == 1250         \* the clock of the canvas stops here, in milliseconds

\* the places of the presses, in client pixels: 6, 8 and 10 px apart, and more
PressPoints == {<<0, 0>>, <<6, 0>>, <<6, 8>>, <<12, 0>>}

\* the times between two events, in milliseconds
PressGaps == {250, 500}

\* Math.pow(dx, 2) + Math.pow(dy, 2) of two places
DistSq(p, q) == (p[1] - q[1]) * (p[1] - q[1]) + (p[2] - q[2]) * (p[2] - q[2])

\* timeDiff < 500 && distance < 10; the square root of an integer is below 10
\* exactly when the integer is below 100
isDoublePress(timeDiff, distSq) ==
    /\ timeDiff < PAGE_DOUBLE_CLICK_MS
    /\ distSq < PAGE_DOUBLE_CLICK_PX * PAGE_DOUBLE_CLICK_PX

\* variant: the time of the press is kept after a double press as well
lastClickTimeAfter_Kept(double, currentTime) == currentTime

\* lastClickTime after the handler: setLastClickTime(0) in the double branch,
\* setLastClickTime(currentTime) in the single one
lastClickTimeAfter(double, currentTime) == IF double THEN 0 ELSE currentTime

\* the page after mount, nothing pressed yet; run, created, prevTime and
\* prevPos record the presses for the properties: the length of the series of
\* presses each close to the one before, the nodes the series created, and
\* the time and place of the latest press
InitBackground ==
    /\ InitSession
    /\ platform = "web"
    /\ coord = CoordIdle
    /\ pm = PatchIdle
    /\ ui = [pc |-> "background", button |-> "up", isDragging |-> FALSE,
             lastClickTime |-> 0, lastClickPos |-> <<0, 0>>, presses |-> 0,
             run |-> 0, created |-> 0, prevTime |-> 0, prevPos |-> <<0, 0>>]

\* the press at pos is within 500 ms and 10 px of the press before it
CloseToPrevious(u, pos) ==
    /\ u.presses > 0
    /\ isDoublePress(now - u.prevTime, DistSq(pos, u.prevPos))

\* the record of a press at pos that added 'added' nodes
Recorded(u, pos, added) ==
    [u EXCEPT !.presses = @ + 1,
              !.run = IF CloseToPrevious(u, pos) THEN @ + 1 ELSE 1,
              !.created = IF CloseToPrevious(u, pos) THEN @ + added ELSE added,
              !.prevTime = now,
              !.prevPos = pos]

\* handleBackgroundMouseDown for a press at pos outside every node
CanvasMouseDown(pos) ==
    /\ ui.pc = "background"
    /\ ui.button = "up"
    /\ ui.presses < MaxBackgroundPresses
    /\ IF activeTool = "pencil"
       THEN /\ NoGraphChange
            /\ UNCHANGED <<sessionVars, timers, connectionTimeoutRef, pendingElapsed, ui>>
            /\ DidUi("mousedown", JsNull, JsFalse, "pencil")
       ELSE LET double == isDoublePress(DateNow - ui.lastClickTime,
                                        DistSq(pos, ui.lastClickPos))
            IN /\ IF double THEN createNewNode ELSE NoGraphChange
               /\ clearSelections
               /\ UNCHANGED <<selectedNodeId, isConnectionDragging,
                              connectionDragStartNode, activeTool>>
               /\ ui' = Recorded(
                           [ui EXCEPT !.button = "down",
                                      !.isDragging = IF double THEN @ ELSE TRUE,
                                      !.lastClickTime = lastClickTimeAfter(double, DateNow),
                                      !.lastClickPos = IF double THEN @ ELSE pos],
                           pos, IF double THEN 1 ELSE 0)
               /\ TrackPending(FALSE)
               /\ DidUi("mousedown", JsNull, JsFalse, IF double THEN "double" ELSE "single")

\* handleMouseUp of the page: the button is released over the canvas
CanvasMouseUp ==
    /\ ui.pc = "background"
    /\ ui.button = "down"
    /\ IF isConnectionDragging
       THEN /\ handleConnectionDragEnd(JsUndefined)
            /\ ui' = [ui EXCEPT !.button = "up"]
       ELSE /\ NoGraphChange
            /\ UNCHANGED <<isConnectionDragging, connectionDragStartNode,
                           connectionSourceNodeId, isConnectionMode, preventNextSelection>>
            /\ ui' = [ui EXCEPT !.button = "up", !.isDragging = FALSE]
    /\ UNCHANGED <<currentEditingNodeId, selectedConnectionId, selectedNodeId, timers,
                   connectionTimeoutRef, activeTool>>
    /\ TrackPending(FALSE)
    /\ DidUi("mouseup", JsNull, JsUndefined, "")

\* d milliseconds pass without an event
CanvasWait(d) ==
    /\ ui.pc = "background"
    /\ now + d <= MaxCanvasTime
    /\ now' = now + d
    /\ NoGraphChange
    /\ UNCHANGED <<sessionVars, timers, connectionTimeoutRef, pendingElapsed>>
    /\ Did("wait", JsUndefined, JsUndefined, "")

NextBackground ==
    \/ \E pos \in PressPoints : CanvasMouseDown(pos)
    \/ CanvasMouseUp
    \/ \E d \in PressGaps : CanvasWait(d)
    \/ \E tool \in WebTools : ToolChange(tool)

SpecBackground == InitBackground /\ [][NextBackground]_vars

\* the step is a press the canvas handled
CanvasPress ==
    /\ ui.pc = "background"
    /\ ui'.presses = ui.presses + 1

\* the press of the step is the second of a pair: it is close to the press
\* before it, which was the first, third, ... of its series
SecondOfPair == CloseToPrevious(ui, ui'.prevPos) /\ ui.run % 2 = 1

\* C39: on the empty canvas, a press within 500 ms and 10 px of the press
\* before it that is the second of its pair creates exactly one node, does
\* not start panning and resets the double-press detection (lastClickTime
\* becomes 0), while every other press creates none; so a series of n presses,
\* each within 500 ms and 10 px of the one before, has created floor(n/2)
\* nodes, one for three presses
C39_SecondPressCreatesNode ==
    [][CanvasPress =>
          /\ SecondOfPair =>
                /\ Len(nodes') = Len(nodes) + 1
                /\ SubSeq(nodes', 1, Len(nodes)) = nodes
                /\ ui'.isDragging = ui.isDragging
                /\ ~ui'.isDragging
                /\ ui'.lastClickTime = 0
                /\ last'.r = "double"
          /\ ~SecondOfPair =>
                /\ nodes' = nodes
                /\ ui'.isDragging
                /\ last'.r = "single"
          /\ ui'.created = ui'.run \div 2]_vars

\* three presses, each close to the one before and the third one 500 ms after
\* the mount and 12 px from the origin, have created one node: the third pans
C39_Witness ==
    /\ ui.pc = "background"
    /\ ui.run = 3
    /\ ui.prevTime = 500
    /\ ui.prevPos = <<12, 0>>
    /\ ui.created = 1
    /\ Len(nodes) = Len(defaultNodes) + 1
    /\ last.op = "mousedown"
    /\ last.r = "single"
    /\ ui.isDragging

\* five presses in one series: two nodes
C39_FivePresses ==
    /\ ui.pc = "background"
    /\ ui.run = 5
    /\ ui.created = 2
    /\ Len(nodes) = Len(defaultNodes) + 2

====
